---- MODULE Spec2Model ----
(***************************************************************************)
(* The fan-in acceptor of go-meta-listener (package meta): the supervisor  *)
(* MetaListener, its per-listener worker goroutines (handleListener), the  *)
(* fan-in channel connCh, the shutdown signal closeCh, the removal path    *)
(* removeListenerCh and the API calls AddListener, RemoveListener, Accept, *)
(* Close and WaitForShutdown, each split at the points where another       *)
(* goroutine can observe or change shared state.                           *)
(*                                                                         *)
(* The current metalistener.go (the struct with the atomic flags, the      *)
(* removal channel and the removal loop) is not among the sources; the     *)
(* parts of it that no source file shows (the shutting-down flag and the   *)
(* removal loop) are modelled from the design document and are marked so.  *)
(*                                                                         *)
(* An inner listener is handed to the supervisor once: AddListener is      *)
(* called with nil or with a listener that no earlier call was given.  So  *)
(* every listener has at most one worker, and worker l is the goroutine    *)
(* started for listener l.                                                 *)
(***************************************************************************)
EXTENDS Naturals, Sequences, FiniteSets, TLC

\* ---------------------------------------------------------------- bounds
\* Inner listeners the callers create (and so workers ever started).
MaxListeners == 2
\* Connections each inner listener hands out before it only blocks or fails.
MaxConns == 2
\* Capacity of connCh in the model (the program uses 100).
ConnChCap == 2
\* Capacity of removeListenerCh in the model (the program uses 10).
RemoveChCap == 1
\* API calls the callers make in one run of the program.
MaxCalls == 3

\* Caller-chosen ids, inner listener objects and the goroutines calling the API.
Ids == {"a", "b"}
Listeners == 1 .. MaxListeners
Callers == {"c1", "c2"}

Nil == 0
NoId == "none"

\* Results of the API calls.
ErrListenerClosed == "listener is closed"
ErrNoListeners == "no active listeners"
ErrNilListener == "cannot add nil listener"
ErrExists == "already exists"
ErrNotFound == "no listener with ID"
ErrShutdown == "cannot add listener during shutdown"
ErrDeadline == "context deadline exceeded"
ErrCloseListeners == "errors closing listeners"
ErrInnerClose == "inner close failed"
Ok == "nil"
GotConn == "conn"

\* No error: handleAcceptError has not been called.
NoError == [net |-> FALSE, timeout |-> FALSE, temporary |-> FALSE, msg |-> <<>>]

\* No call returned in the last step.
NoRet == [op |-> "none", res |-> "none", after |-> FALSE, shut |-> FALSE, id |-> NoId]

VARIABLES
    isClosed,          \* closed flag, 0 or 1 (atomic int64)
    isShuttingDown,    \* shutting-down flag, 0 or 1
    listeners,         \* registry: id -> listener or Nil
    mu,                \* holder of the supervisor lock, or "free"
    connCh,            \* fan-in channel: sequence of ConnResult
    closeCh,           \* TRUE once close(closeCh) ran
    removeListenerCh,  \* removal requests: sequence of ids
    listenerWg,        \* WaitGroup counter
    wpc,               \* worker of listener l: position in handleListener
    wid,               \* the id listener l was registered under
    lclosed, lnext,    \* inner listeners: Close was invoked; connections handed out
    failing,           \* inner listeners whose Close returns an error
    lpc, lrid,         \* removal loop: position and the id it is removing
    cpc, cid, clis,    \* API callers: position in the call and its arguments
    calls, limit,      \* API calls begun so far, and how many the callers make
    ret,               \* history: the call that returned in the last step, its result
                       \* and, of RemoveListener, its argument
    delivered,         \* history: per listener, what Accept returned of it, in order
    closedConns,       \* history: connections the workers closed instead of delivering
    signals, walks,    \* history: times closeCh was closed / the registry was walked
    errs,              \* the listeners whose Close error the walk of Close collected
    panics,            \* history: the listeners whose worker panicked
    senders,           \* history: per request in removeListenerCh, the listener
                       \* whose worker published it
    lrfrom,            \* history: the same for the request the loop is removing
    late,              \* history: the listeners inserted after the closed flag was set
    afterClosed,       \* history: the workers whose accept failed with the flag set
    aerr, apc,         \* handleAcceptError: the error it was given, and its position
    envTor, envI2P,    \* Mirror: the values of DISABLE_TOR and DISABLE_I2P
    mlimit,            \* Mirror.Listen calls the goroutines make between them
    hname, HIDDEN_TLS, \* hidden-TLS policy: the name given to Mirror.Listen, the global
    hpc, hport, huse,  \* its position, the port parsed, the policy derived,
    hopened,           \* and how the onion and the garlic listener were opened
    closedManagers,    \* Mirror: <<kind, port>> of the stored managers that are closed
    mheld,             \* Mirror.Listen calls: the manager got from a map and not yet
                       \* listened on: "none", "open" or "closed"
    stale,             \* history: of the calls that opened a listener from a closed
                       \* manager, whether they began after Mirror.Close returned
    Onions, Garlics,   \* Mirror: port -> a manager is stored
    mmu,               \* Mirror: holder of the lock of the two maps, or Unlocked
    nextSup,           \* supervisors built by NewMetaListener inside Mirror.Listen
    sreg, sport,       \* per supervisor: ids registered; port of its TCP socket
    sclosed,           \* supervisors on which Close was called
    mpc, mport, mtls, msup, mafter,  \* Mirror.Listen calls: position, port, TLS wanted,
                       \* the supervisor the call builds, and whether Mirror.Close
                       \* had returned when the call began
    kpc,               \* Mirror.Close: position
    listens,           \* Mirror.Listen calls begun so far
    mret,              \* history: the Mirror.Listen that returned in the last step
    handed,            \* history: per supervisor, times a Mirror.Listen returned it
    overwrites         \* history: managers stored over a manager already stored

vars == <<isClosed, isShuttingDown, listeners, mu, connCh, closeCh, removeListenerCh,
          listenerWg, wpc, wid, lclosed, lnext, failing, lpc, lrid,
          cpc, cid, clis, calls, limit, ret,
          delivered, closedConns, signals, walks, errs, panics, senders, lrfrom, late,
          afterClosed, aerr, apc, envTor, envI2P, mlimit, hname, HIDDEN_TLS, hpc, hport, huse, hopened,
          closedManagers, mheld, stale, Onions, Garlics, mmu, nextSup, sreg, sport,
          sclosed, mpc, mport, mtls, msup, mafter, kpc, listens, mret, handed, overwrites>>

supervisorVars == <<isClosed, isShuttingDown, listeners, mu, connCh, closeCh,
                    removeListenerCh, listenerWg>>
workerVars == <<wpc, wid>>
listenerVars == <<lclosed, lnext>>
loopVars == <<lpc, lrid>>
historyVars == <<delivered, closedConns, signals, walks, errs, panics, senders,
                 lrfrom, late, afterClosed>>
errorVars == <<aerr, apc>>
mirrorVars == <<envTor, envI2P, mlimit, hname, HIDDEN_TLS, hpc, hport, huse, hopened,
                closedManagers, mheld, stale, Onions, Garlics, mmu, nextSup, sreg, sport,
                sclosed, mpc, mport, mtls, msup, mafter, kpc, listens, mret, handed,
                overwrites>>

\* ---- The Mirror profile: bounds and values ----

\* Goroutines that call Mirror.Listen, and the calls they make between them.
MaxComposers == 2
MaxListens == 2

Composers == 1 .. MaxComposers
Ports == {"p1", "p2"}
\* The port NewMirror takes from its name.
MirrorPort == "p1"
NoPort == "noport"
\* The supervisor a Mirror embeds, and those Mirror.Listen can build.
Embedded == 0
\* The lock of the maps when nobody holds it.
Unlocked == 0
Supervisors == 0 .. MaxListens
NoSup == MaxListens + 1
\* Ids under which Mirror.Listen registers: the port, onion-<addr>, garlic-<addr>,
\* tls-<addr>.
EntryIds == {"tcp", "onion", "garlic", "tls"}

ErrBind == "failed to create TCP listener"
ErrNewManager == "manager not created"
ErrNoInstance == "no instance found for port"
ErrHiddenListen == "hidden service listener not created"
ErrTLS == "TLS listener not created"

NoMRet ==
    [op |-> "none", res |-> "none", sup |-> NoSup, port |-> NoPort, tls |-> FALSE,
     after |-> FALSE]

\* Values the environment variables DISABLE_TOR and DISABLE_I2P are given; the
\* empty string stands for an unset variable.
EnvValues == {"", "0", "1", "true", "TRUE", "True", "yes"}

\* strings.ToLower on those values.
ToLower(v) == IF v \in {"TRUE", "True"} THEN "true" ELSE v

\* A toggle that is set only by the lower-case word.
DisabledExact(v) == v = "1" \/ v = "true"

\* DisableTor() and DisableI2P() on the value of their variable:
\* val == "1" || strings.ToLower(val) == "true".
Disabled(v) == v = "1" \/ ToLower(v) = "true"

DisableTor == Disabled(envTor)
DisableI2P == Disabled(envI2P)

\* The toggles and the call budget, which no step changes.
hiddenVars == <<hname, HIDDEN_TLS, hpc, hport, huse, hopened>>
mirrorEnv == <<envTor, envI2P, mlimit, hiddenVars, errorVars>>

\* Port strings, as sequences of digits of at most MaxPortLen digits.
MaxPortLen == 3
Digits == {0, 2, 3}
PortStrings == UNION {[1 .. n -> Digits] : n \in 0 .. MaxPortLen}
\* Names: host:port with that port string, or a name net.SplitHostPort refuses.
Names == [ok : {TRUE}, port : PortStrings] \cup [ok : {FALSE}, port : {<<>>}]
DefaultPort == <<3, 0, 0, 0>>
Kinds == {"onion", "garlic"}

\* NewMirror under the environment vt, vi: an empty embedded supervisor, and unless
\* disabled one onion and one garlic manager under the port of the name.  The
\* goroutines are about to make k calls of Mirror.Listen.
NewMirrorNamed(vt, vi, k, name, h) ==
    /\ hname = name
    /\ HIDDEN_TLS = h
    /\ hpc = "idle"
    /\ hport = <<>>
    /\ huse = FALSE
    /\ hopened = [kd \in Kinds |-> "none"]
    /\ envTor = vt
    /\ envI2P = vi
    /\ mlimit = k
    /\ Onions = [p \in Ports |-> p = MirrorPort /\ ~Disabled(vt)]
    /\ Garlics = [p \in Ports |-> p = MirrorPort /\ ~Disabled(vi)]
    /\ mmu = Unlocked
    /\ nextSup = 0
    /\ sreg = [s \in Supervisors |-> {}]
    /\ sport = [s \in Supervisors |-> NoPort]
    /\ sclosed = {}
    /\ mpc = [m \in Composers |-> "idle"]
    /\ mport = [m \in Composers |-> NoPort]
    /\ mtls = [m \in Composers |-> FALSE]
    /\ mafter = [m \in Composers |-> FALSE]
    /\ mheld = [m \in Composers |-> "none"]
    /\ closedManagers = {}
    /\ stale = {}
    /\ msup = [m \in Composers |-> NoSup]
    /\ kpc = "idle"
    /\ listens = 0
    /\ mret = NoMRet
    /\ handed = [s \in Supervisors |-> 0]
    /\ overwrites = 0

\* NewMirror with the hidden-TLS global at its default, true.
NewMirror(vt, vi, k) == NewMirrorNamed(vt, vi, k, [ok |-> FALSE, port |-> <<>>], TRUE)

\* NewMetaListener: empty registry, open channels, no worker; the removal loop runs.
\* The callers are about to make k calls; the listeners of F fail to close.
NewMetaListener(k, F) ==
    /\ isClosed = 0
    /\ isShuttingDown = 0
    /\ listeners = [i \in Ids |-> Nil]
    /\ mu = "free"
    /\ connCh = <<>>
    /\ closeCh = FALSE
    /\ removeListenerCh = <<>>
    /\ listenerWg = 0
    /\ wpc = [l \in Listeners |-> "none"]
    /\ wid = [l \in Listeners |-> NoId]
    /\ lclosed = [l \in Listeners |-> FALSE]
    /\ lnext = [l \in Listeners |-> 0]
    /\ failing = F
    /\ lpc = "recv"
    /\ lrid = NoId
    /\ cpc = [c \in Callers |-> "idle"]
    /\ cid = [c \in Callers |-> NoId]
    /\ clis = [c \in Callers |-> Nil]
    /\ calls = 0
    /\ limit = k
    /\ ret = NoRet
    /\ delivered = [l \in Listeners |-> <<>>]
    /\ closedConns = {}
    /\ signals = 0
    /\ walks = 0
    /\ errs = {}
    /\ panics = {}
    /\ senders = <<>>
    /\ lrfrom = Nil
    /\ late = {}
    /\ afterClosed = {}
    /\ aerr = NoError
    /\ apc = "none"

\* A supervisor on its own: the Mirror beside it is never used.
StartWith(k, F) == NewMetaListener(k, F) /\ NewMirror("true", "true", 0)

\* Every inner listener closes without error.
Start(k) == StartWith(k, {})

Init == Start(MaxCalls)

\* ------------------------------------------------------------- call frame
\* A call by c begins and does not return at once: its arguments are recorded.
Begin(c, id, l, pc) ==
    /\ cpc[c] = "idle"
    /\ calls < limit
    /\ calls' = calls + 1
    /\ UNCHANGED <<limit, failing, mirrorVars, errorVars>>
    /\ cpc' = [cpc EXCEPT ![c] = pc]
    /\ cid' = [cid EXCEPT ![c] = id]
    /\ clis' = [clis EXCEPT ![c] = l]
    /\ ret' = NoRet

\* What is recorded of a returning call, for the one state that follows the
\* return: the call, its result, and whether the flags were set when the call made
\* its first step.
Returned(op, r, after, shut) ==
    [op |-> op, res |-> r, after |-> after, shut |-> shut, id |-> NoId]

\* A call that returns r in its first step.
BeginReturn(c, op, r) ==
    /\ cpc[c] = "idle"
    /\ calls < limit
    /\ calls' = calls + 1
    /\ UNCHANGED <<limit, failing, mirrorVars, errorVars>>
    /\ ret' = Returned(op, r, isClosed # 0, isShuttingDown # 0)
    /\ UNCHANGED <<cpc, cid, clis>>

\* A call with the argument id that returns r in its first step.
BeginReturnFor(c, op, r, id) ==
    /\ cpc[c] = "idle"
    /\ calls < limit
    /\ calls' = calls + 1
    /\ UNCHANGED <<limit, failing, mirrorVars, errorVars>>
    /\ ret' = [Returned(op, r, isClosed # 0, isShuttingDown # 0) EXCEPT !.id = id]
    /\ UNCHANGED <<cpc, cid, clis>>

\* The call op of c, which began with both flags clear or does not read them,
\* returns r.
Return(c, op, r) ==
    /\ cpc' = [cpc EXCEPT ![c] = "idle"]
    /\ cid' = [cid EXCEPT ![c] = NoId]
    /\ clis' = [clis EXCEPT ![c] = Nil]
    /\ ret' = Returned(op, r, FALSE, FALSE)
    /\ UNCHANGED <<calls, limit, failing, mirrorVars, errorVars>>

Goto(c, pc) ==
    /\ cpc' = [cpc EXCEPT ![c] = pc]
    /\ ret' = NoRet
    /\ UNCHANGED <<cid, clis, calls, limit, failing, mirrorVars, errorVars>>

\* A step of a worker or of the removal loop: no caller moves, no call returns.
NoCall ==
    /\ ret' = NoRet
    /\ UNCHANGED <<cpc, cid, clis, calls, limit, failing, mirrorVars, errorVars>>

\* ------------------------------------------------------------ AddListener
\* The listeners no AddListener call was given yet; the caller hands over the
\* first of them.
FreshListeners == {l \in Listeners : wpc[l] = "none" /\ \A c \in Callers : clis[c] # l}
FreshListener == CHOOSE l \in FreshListeners : \A k \in FreshListeners : l <= k

\* The shutting-down test of AddListener.
ShuttingDownCheck == isShuttingDown # 0

\* AddListener with both flags tested after the duplicate test.
AddListenerCheckDupFirst(id) ==
    IF listeners[id] # Nil THEN ErrExists
    ELSE IF isClosed # 0 THEN ErrListenerClosed
    ELSE IF ShuttingDownCheck THEN ErrShutdown
    ELSE Ok

\* AddListener without the duplicate test: the entry of the id is overwritten.
AddListenerCheckNoDup(id) ==
    IF isClosed # 0 THEN ErrListenerClosed
    ELSE IF ShuttingDownCheck THEN ErrShutdown
    ELSE Ok

\* AddListener without the test of the closed flag.
AddListenerCheckNoClosed(id) ==
    IF ShuttingDownCheck THEN ErrShutdown
    ELSE IF listeners[id] # Nil THEN ErrExists
    ELSE Ok

\* The tests AddListener makes under the lock, in order: closed, shutting down,
\* duplicate id.
AddListenerCheck(id) ==
    IF isClosed # 0 THEN ErrListenerClosed
    ELSE IF ShuttingDownCheck THEN ErrShutdown
    ELSE IF listeners[id] # Nil THEN ErrExists
    ELSE Ok

\* AddListener(id, nil): refused before the lock is taken.
AddListenerNil(c) ==
    /\ BeginReturn(c, "AddListener", ErrNilListener)
    /\ UNCHANGED <<supervisorVars, workerVars, listenerVars, loopVars, historyVars>>

\* AddListener(id, l), l not nil: ml.mu.Lock() and the tests under the lock.  A
\* refused call unlocks (deferred) and returns; the other goes on holding the lock.
\* AddListener that makes its tests without taking the lock.
AddListenerTestNoLock(c, id) ==
    /\ FreshListeners # {}
    /\ LET r == AddListenerCheck(id) IN
        IF r = Ok
        THEN Begin(c, id, FreshListener, "add_insert") /\ mu' = mu
        ELSE BeginReturn(c, "AddListener", r) /\ mu' = mu
    /\ UNCHANGED <<isClosed, isShuttingDown, listeners, connCh, closeCh,
                   removeListenerCh, listenerWg>>
    /\ UNCHANGED <<workerVars, listenerVars, loopVars, historyVars>>

AddListenerTest(c, id) ==
    /\ mu = "free"
    /\ FreshListeners # {}
    /\ LET r == AddListenerCheck(id) IN
        IF r = Ok
        THEN Begin(c, id, FreshListener, "add_insert") /\ mu' = c
        ELSE BeginReturn(c, "AddListener", r) /\ mu' = mu
    /\ UNCHANGED <<isClosed, isShuttingDown, listeners, connCh, closeCh,
                   removeListenerCh, listenerWg>>
    /\ UNCHANGED <<workerVars, listenerVars, loopVars, historyVars>>

\* AddListener that starts the worker and leaves listenerWg.Add(1) to the worker.
AddListenerInsertNoAdd(c) ==
    /\ cpc[c] = "add_insert"
    /\ listeners' = [listeners EXCEPT ![cid[c]] = clis[c]]
    /\ listenerWg' = listenerWg
    /\ wpc' = [wpc EXCEPT ![clis[c]] = "probe"]
    /\ wid' = [wid EXCEPT ![clis[c]] = cid[c]]
    /\ mu' = "free"
    /\ late' = IF isClosed # 0 THEN late \cup {clis[c]} ELSE late
    /\ Return(c, "AddListener", Ok)
    /\ UNCHANGED <<isClosed, isShuttingDown, connCh, closeCh, removeListenerCh>>
    /\ UNCHANGED <<listenerVars, loopVars, delivered, closedConns, signals, walks,
                   errs, panics, senders, lrfrom, afterClosed>>

\* ml.listeners[id] = listener; listenerWg.Add(1); go handleListener; unlock.
AddListenerInsert(c) ==
    /\ cpc[c] = "add_insert"
    /\ listeners' = [listeners EXCEPT ![cid[c]] = clis[c]]
    /\ listenerWg' = listenerWg + 1
    /\ wpc' = [wpc EXCEPT ![clis[c]] = "probe"]
    /\ wid' = [wid EXCEPT ![clis[c]] = cid[c]]
    /\ mu' = "free"
    /\ late' = IF isClosed # 0 THEN late \cup {clis[c]} ELSE late
    /\ Return(c, "AddListener", Ok)
    /\ UNCHANGED <<isClosed, isShuttingDown, connCh, closeCh, removeListenerCh>>
    /\ UNCHANGED <<listenerVars, loopVars, delivered, closedConns, signals, walks,
                   errs, panics, senders, lrfrom, afterClosed>>

\* --------------------------------------------------------- RemoveListener
\* RemoveListener that reports success for an id the registry does not hold.
RemoveListenerAbsentOk(c, id) ==
    /\ mu = "free"
    /\ BeginReturnFor(c, "RemoveListener", Ok, id)
    /\ IF listeners[id] = Nil
       THEN UNCHANGED <<listeners, lclosed>>
       ELSE /\ lclosed' = [lclosed EXCEPT ![listeners[id]] = TRUE]
            /\ listeners' = [listeners EXCEPT ![id] = Nil]
    /\ UNCHANGED <<isClosed, isShuttingDown, mu, connCh, closeCh, removeListenerCh,
                   listenerWg, lnext>>
    /\ UNCHANGED <<workerVars, loopVars, historyVars>>

\* RemoveListener that closes the listener and leaves its entry in the registry.
RemoveListenerNoDelete(c, id) ==
    /\ mu = "free"
    /\ IF listeners[id] = Nil
       THEN /\ BeginReturnFor(c, "RemoveListener", ErrNotFound, id)
            /\ UNCHANGED lclosed
       ELSE /\ BeginReturnFor(c, "RemoveListener", Ok, id)
            /\ lclosed' = [lclosed EXCEPT ![listeners[id]] = TRUE]
    /\ UNCHANGED <<isClosed, isShuttingDown, listeners, mu, connCh, closeCh,
                   removeListenerCh, listenerWg, lnext>>
    /\ UNCHANGED <<workerVars, loopVars, historyVars>>

\* RemoveListener that deletes the entry and leaves its listener open.
RemoveListenerNoClose(c, id) ==
    /\ mu = "free"
    /\ IF listeners[id] = Nil
       THEN /\ BeginReturnFor(c, "RemoveListener", ErrNotFound, id)
            /\ UNCHANGED listeners
       ELSE /\ BeginReturnFor(c, "RemoveListener", Ok, id)
            /\ listeners' = [listeners EXCEPT ![id] = Nil]
    /\ UNCHANGED <<isClosed, isShuttingDown, mu, connCh, closeCh, removeListenerCh,
                   listenerWg, lclosed, lnext>>
    /\ UNCHANGED <<workerVars, loopVars, historyVars>>

\* RemoveListener(id): under the lock, close the entry's listener and delete it;
\* the result is that of the listener's Close.
RemoveListener(c, id) ==
    /\ mu = "free"
    /\ IF listeners[id] = Nil
       THEN /\ BeginReturnFor(c, "RemoveListener", ErrNotFound, id)
            /\ UNCHANGED <<listeners, lclosed>>
       ELSE /\ BeginReturnFor(c, "RemoveListener",
                    IF listeners[id] \in failing THEN ErrInnerClose ELSE Ok, id)
            /\ lclosed' = [lclosed EXCEPT ![listeners[id]] = TRUE]
            /\ listeners' = [listeners EXCEPT ![id] = Nil]
    /\ UNCHANGED <<isClosed, isShuttingDown, mu, connCh, closeCh, removeListenerCh,
                   listenerWg, lnext>>
    /\ UNCHANGED <<workerVars, loopVars, historyVars>>

\* ------------------------------------------------------------------ Close
\* Close without the compare-and-swap: every call performs the shutdown.
CloseSwapAlways(c) ==
    /\ Begin(c, NoId, Nil, "close_lock")
    /\ isClosed' = 1
    /\ UNCHANGED <<isShuttingDown, listeners, mu, connCh, closeCh, removeListenerCh,
                   listenerWg>>
    /\ UNCHANGED <<workerVars, listenerVars, loopVars, historyVars>>

\* atomic.CompareAndSwapInt64(&ml.isClosed, 0, 1): the loser returns nil.
\* A Close that begins the shutdown and leaves the closed flag for later.
CloseSwapFlagLater(c) ==
    /\ IF isClosed = 0 /\ ~closeCh /\ \A d \in Callers : cpc[d] # "close_lock"
       THEN Begin(c, NoId, Nil, "close_lock")
       ELSE BeginReturn(c, "Close", Ok)
    /\ UNCHANGED <<isClosed, isShuttingDown, listeners, mu, connCh, closeCh,
                   removeListenerCh, listenerWg>>
    /\ UNCHANGED <<workerVars, listenerVars, loopVars, historyVars>>

CloseSwap(c) ==
    /\ IF isClosed = 0
       THEN /\ Begin(c, NoId, Nil, "close_lock")
            /\ isClosed' = 1
       ELSE /\ BeginReturn(c, "Close", Ok)
            /\ isClosed' = isClosed
    /\ UNCHANGED <<isShuttingDown, listeners, mu, connCh, closeCh, removeListenerCh,
                   listenerWg>>
    /\ UNCHANGED <<workerVars, listenerVars, loopVars, historyVars>>

\* ml.mu.Lock(); close(ml.closeCh).
\* A Close that takes the lock and leaves the signal for later.
CloseSignalLater(c) ==
    /\ cpc[c] = "close_lock"
    /\ mu = "free"
    /\ mu' = c
    /\ Goto(c, "close_walk")
    /\ UNCHANGED <<isClosed, isShuttingDown, listeners, connCh, closeCh,
                   removeListenerCh, listenerWg>>
    /\ UNCHANGED <<workerVars, listenerVars, loopVars, historyVars>>

CloseSignal(c) ==
    /\ cpc[c] = "close_lock"
    /\ mu = "free"
    /\ mu' = c
    /\ closeCh' = TRUE
    /\ signals' = signals + 1
    /\ Goto(c, "close_walk")
    /\ UNCHANGED <<isClosed, isShuttingDown, listeners, connCh, removeListenerCh,
                   listenerWg>>
    /\ UNCHANGED <<workerVars, listenerVars, loopVars, panics, senders, lrfrom, late, afterClosed, delivered, closedConns,
                   walks, errs>>

\* A walk that ends at the first Close that fails: where one fails, the listeners
\* whose Close would succeed are not reached.
closeAllListenersStopAtError ==
    LET registered == {listeners[i] : i \in {j \in Ids : listeners[j] # Nil}} IN
    IF registered \cap failing # {} THEN registered \cap failing ELSE registered

\* A walk that closes no listener.
closeAllListenersNone == {}

\* closeAllListeners: Close is invoked on every listener of the registry.
closeAllListeners == {listeners[i] : i \in {j \in Ids : listeners[j] # Nil}}

\* A walk after which the registry keeps its entries.
CloseWalkNoClear(c) ==
    /\ cpc[c] = "close_walk"
    /\ lclosed' = [l \in Listeners |-> lclosed[l] \/ l \in closeAllListeners]
    /\ walks' = walks + 1
    /\ errs' = closeAllListeners \cap failing
    /\ mu' = "free"
    /\ Goto(c, "close_wait")
    /\ UNCHANGED <<isClosed, isShuttingDown, listeners, connCh, closeCh,
                   removeListenerCh, listenerWg, lnext>>
    /\ UNCHANGED <<workerVars, loopVars, panics, senders, lrfrom, late, afterClosed, delivered, closedConns, signals>>

\* The walk, the fresh empty registry and the unlock.
CloseWalk(c) ==
    /\ cpc[c] = "close_walk"
    /\ lclosed' = [l \in Listeners |-> lclosed[l] \/ l \in closeAllListeners]
    /\ listeners' = [i \in Ids |-> Nil]
    /\ walks' = walks + 1
    /\ errs' = closeAllListeners \cap failing
    /\ mu' = "free"
    /\ Goto(c, "close_wait")
    /\ UNCHANGED <<isClosed, isShuttingDown, connCh, closeCh, removeListenerCh,
                   listenerWg, lnext>>
    /\ UNCHANGED <<workerVars, loopVars, panics, senders, lrfrom, late, afterClosed, delivered, closedConns, signals>>

\* waitForListenerShutdown that gives up when the grace period expires.
waitForListenerShutdownGrace == TRUE

\* waitForListenerShutdown: with or without the grace period expiring, it returns
\* only after listenerWg.Wait().
waitForListenerShutdown == listenerWg = 0

\* formatCloseErrors: nil, or one error made of all the errors collected.
formatCloseErrors == IF errs # {} THEN ErrCloseListeners ELSE Ok

\* Close returns once the workers are drained.
CloseReturn(c) ==
    /\ cpc[c] = "close_wait"
    /\ waitForListenerShutdown
    /\ Return(c, "Close", formatCloseErrors)
    /\ UNCHANGED <<supervisorVars, workerVars, listenerVars, loopVars, historyVars>>

\* ----------------------------------------------------------------- Accept
\* Accept as it was when it also tested the registry: no listeners, no accept.
AcceptEntryNoListeners ==
    IF isClosed # 0 THEN ErrListenerClosed
    ELSE IF \A i \in Ids : listeners[i] = Nil THEN ErrNoListeners
    ELSE Ok

\* The test Accept makes before it waits: the closed flag alone.
AcceptEntry == IF isClosed # 0 THEN ErrListenerClosed ELSE Ok

AcceptCall(c) ==
    /\ LET r == AcceptEntry IN
        IF r = Ok
        THEN Begin(c, NoId, Nil, "acc_wait")
        ELSE BeginReturn(c, "Accept", r)
    /\ UNCHANGED <<supervisorVars, workerVars, listenerVars, loopVars, historyVars>>

\* waitForConnection, case result := <-ml.connCh.
AcceptRecv(c) ==
    /\ cpc[c] = "acc_wait"
    /\ connCh # <<>>
    /\ connCh' = Tail(connCh)
    /\ delivered' = [delivered EXCEPT ![Head(connCh).lis] =
                        Append(@, <<Head(connCh).src, Head(connCh).n>>)]
    /\ Return(c, "Accept", GotConn)
    /\ UNCHANGED <<isClosed, isShuttingDown, listeners, mu, closeCh, removeListenerCh,
                   listenerWg>>
    /\ UNCHANGED <<workerVars, listenerVars, loopVars, panics, senders, lrfrom, late, afterClosed, closedConns, signals,
                   walks, errs>>

\* A select without the case <-ml.closeCh: the wait ends with a connection only.
AcceptWakeNever(c) ==
    /\ cpc[c] = "acc_wait"
    /\ FALSE
    /\ UNCHANGED vars

\* waitForConnection, case <-ml.closeCh.
AcceptWake(c) ==
    /\ cpc[c] = "acc_wait"
    /\ closeCh
    /\ Goto(c, "acc_recheck")
    /\ UNCHANGED <<supervisorVars, workerVars, listenerVars, loopVars, historyVars>>

\* The second look at the closed flag: closed error, or back into the select.
AcceptRecheck(c) ==
    /\ cpc[c] = "acc_recheck"
    /\ IF isClosed # 0 THEN Return(c, "Accept", ErrListenerClosed) ELSE Goto(c, "acc_wait")
    /\ UNCHANGED <<supervisorVars, workerVars, listenerVars, loopVars, historyVars>>

\* -------------------------------------------------------- WaitForShutdown
\* The flag WaitForShutdown raises as it begins.
WaitForShutdownFlag == 1

WaitForShutdownCall(c) ==
    /\ Begin(c, NoId, Nil, "wfs_wait")
    /\ isShuttingDown' = WaitForShutdownFlag
    /\ UNCHANGED <<isClosed, listeners, mu, connCh, closeCh, removeListenerCh,
                   listenerWg>>
    /\ UNCHANGED <<workerVars, listenerVars, loopVars, historyVars>>

\* A helper goroutine that closes done without waiting for the workers.
WaitForShutdownNoWait(c) ==
    /\ cpc[c] = "wfs_wait"
    /\ Goto(c, "wfs_done")
    /\ UNCHANGED <<supervisorVars, workerVars, listenerVars, loopVars, historyVars>>

\* The helper goroutine: listenerWg.Wait() returns, close(done).
WaitForShutdownWait(c) ==
    /\ cpc[c] = "wfs_wait"
    /\ listenerWg = 0
    /\ Goto(c, "wfs_done")
    /\ UNCHANGED <<supervisorVars, workerVars, listenerVars, loopVars, historyVars>>

\* case <-done: the call returns nil.
WaitForShutdownDone(c) ==
    /\ cpc[c] = "wfs_done"
    /\ Return(c, "WaitForShutdown", Ok)
    /\ UNCHANGED <<supervisorVars, workerVars, listenerVars, loopVars, historyVars>>

\* case <-ctx.Done(): the deadline passed first, or is chosen among the ready cases.
WaitForShutdownDeadline(c) ==
    /\ cpc[c] \in {"wfs_wait", "wfs_done"}
    /\ Return(c, "WaitForShutdown", ErrDeadline)
    /\ UNCHANGED <<supervisorVars, workerVars, listenerVars, loopVars, historyVars>>

\* ---------------------------------------------------------------- workers
\* What a worker sends into connCh: the connection n of listener l, tagged with
\* the id the listener was registered under.
ConnResult(id, l, n) == [src |-> id, lis |-> l, n |-> n]

\* The connection worker l holds while it forwards: the last one its listener
\* handed out.
Held(l) == ConnResult(wid[l], l, lnext[l])

\* recoverAndCleanup: the goroutine ends with listenerWg.Done().
\* A cleanup that leaves out listenerWg.Done().
recoverAndCleanupNoDone(l) ==
    /\ wpc' = [wpc EXCEPT ![l] = "done"]
    /\ listenerWg' = listenerWg

recoverAndCleanup(l) ==
    /\ wpc' = [wpc EXCEPT ![l] = "done"]
    /\ listenerWg' = listenerWg - 1

WGoto(l, pc) ==
    /\ wpc' = [wpc EXCEPT ![l] = pc]
    /\ listenerWg' = listenerWg

\* shouldStopListener: a look at closeCh that does not block.
shouldStopListener == closeCh

\* Top of the loop of handleListener.
WProbe(l) ==
    /\ wpc[l] = "probe"
    /\ IF shouldStopListener THEN recoverAndCleanup(l) ELSE WGoto(l, "accept")
    /\ UNCHANGED <<isClosed, isShuttingDown, listeners, mu, connCh, closeCh,
                   removeListenerCh, wid>>
    /\ NoCall
    /\ UNCHANGED <<listenerVars, loopVars, historyVars>>

\* listener.Accept() returns the next connection of an open listener.
WAcceptConn(l) ==
    /\ wpc[l] = "accept"
    /\ ~lclosed[l]
    /\ lnext[l] < MaxConns
    /\ lnext' = [lnext EXCEPT ![l] = @ + 1]
    /\ WGoto(l, "forward")
    /\ UNCHANGED <<isClosed, isShuttingDown, listeners, mu, connCh, closeCh,
                   removeListenerCh, wid, lclosed>>
    /\ NoCall
    /\ UNCHANGED <<loopVars, historyVars>>

\* handleAcceptError, timeout: back to the top of the loop.
WAcceptTimeout(l) ==
    /\ wpc[l] = "accept"
    /\ ~lclosed[l]
    /\ WGoto(l, "probe")
    /\ UNCHANGED <<isClosed, isShuttingDown, listeners, mu, connCh, closeCh,
                   removeListenerCh, wid>>
    /\ NoCall
    /\ UNCHANGED <<listenerVars, loopVars, historyVars>>

\* handleAcceptError, an error matching a retryable pattern: sleep 100 ms.
WAcceptTransient(l) ==
    /\ wpc[l] = "accept"
    /\ ~lclosed[l]
    /\ WGoto(l, "backoff")
    /\ UNCHANGED <<isClosed, isShuttingDown, listeners, mu, connCh, closeCh,
                   removeListenerCh, wid>>
    /\ NoCall
    /\ UNCHANGED <<listenerVars, loopVars, historyVars>>

\* A worker that gives up after the sleep instead of accepting again.
WBackoffGiveUp(l) ==
    /\ wpc[l] = "backoff"
    /\ recoverAndCleanup(l)
    /\ UNCHANGED <<isClosed, isShuttingDown, listeners, mu, connCh, closeCh,
                   removeListenerCh, wid>>
    /\ NoCall
    /\ UNCHANGED <<listenerVars, loopVars, historyVars>>

\* The sleep ends; handleAcceptError returns true.
WBackoff(l) ==
    /\ wpc[l] = "backoff"
    /\ WGoto(l, "probe")
    /\ UNCHANGED <<isClosed, isShuttingDown, listeners, mu, connCh, closeCh,
                   removeListenerCh, wid>>
    /\ NoCall
    /\ UNCHANGED <<listenerVars, loopVars, historyVars>>

\* A failed accept whose nil connection (number 0) is forwarded all the same.
WAcceptErrorForwarded(l) ==
    /\ wpc[l] = "accept"
    /\ Len(connCh) < ConnChCap
    /\ connCh' = Append(connCh, ConnResult(wid[l], l, 0))
    /\ WGoto(l, "classify")
    /\ UNCHANGED <<isClosed, isShuttingDown, listeners, mu, closeCh,
                   removeListenerCh, wid>>
    /\ NoCall
    /\ UNCHANGED <<listenerVars, loopVars, historyVars>>

\* listener.Accept() fails with an error that is neither a timeout nor retryable:
\* any time for an open listener, always for a closed one.
WAcceptError(l) ==
    /\ wpc[l] = "accept"
    /\ WGoto(l, "classify")
    /\ afterClosed' = IF isClosed # 0 THEN afterClosed \cup {l} ELSE afterClosed
    /\ UNCHANGED <<isClosed, isShuttingDown, listeners, mu, connCh, closeCh,
                   removeListenerCh, wid>>
    /\ NoCall
    /\ UNCHANGED <<listenerVars, loopVars, delivered, closedConns, signals, walks,
                   errs, panics, senders, lrfrom, late>>

\* listener.Accept() panics; the deferred recoverAndCleanup recovers.
WAcceptPanic(l) ==
    /\ wpc[l] = "accept"
    /\ ~lclosed[l]
    /\ recoverAndCleanup(l)
    /\ panics' = panics \cup {l}
    /\ UNCHANGED <<isClosed, isShuttingDown, listeners, mu, connCh, closeCh,
                   removeListenerCh, wid>>
    /\ NoCall
    /\ UNCHANGED <<listenerVars, loopVars, delivered, closedConns, signals, walks,
                   errs, senders, lrfrom, late, afterClosed>>

\* handleAcceptError without the load of isClosed: every such error is permanent.
WClassifyNoLoad(l) ==
    /\ wpc[l] = "classify"
    /\ WGoto(l, "signal")
    /\ UNCHANGED <<isClosed, isShuttingDown, listeners, mu, connCh, closeCh,
                   removeListenerCh, wid>>
    /\ NoCall
    /\ UNCHANGED <<listenerVars, loopVars, historyVars>>

\* handleAcceptError, the load of isClosed: closed during shutdown, or permanent.
WClassify(l) ==
    /\ wpc[l] = "classify"
    /\ IF isClosed # 0 THEN recoverAndCleanup(l) ELSE WGoto(l, "signal")
    /\ UNCHANGED <<isClosed, isShuttingDown, listeners, mu, connCh, closeCh,
                   removeListenerCh, wid>>
    /\ NoCall
    /\ UNCHANGED <<listenerVars, loopVars, historyVars>>

\* A worker that returns after a permanent error without publishing its id.
WSignalDrop(l) ==
    /\ wpc[l] = "signal"
    /\ recoverAndCleanup(l)
    /\ UNCHANGED <<isClosed, isShuttingDown, listeners, mu, connCh, closeCh,
                   removeListenerCh, wid>>
    /\ NoCall
    /\ UNCHANGED <<listenerVars, loopVars, historyVars>>

\* A worker that publishes some id of the id space, its own or not.
WSignalSendAny(l) ==
    /\ wpc[l] = "signal"
    /\ Len(removeListenerCh) < RemoveChCap
    /\ \E i \in Ids \cup {NoId} : removeListenerCh' = Append(removeListenerCh, i)
    /\ senders' = Append(senders, l)
    /\ recoverAndCleanup(l)
    /\ UNCHANGED <<isClosed, isShuttingDown, listeners, mu, connCh, closeCh, wid>>
    /\ NoCall
    /\ UNCHANGED <<listenerVars, loopVars, delivered, closedConns, signals, walks,
                   errs, panics, lrfrom, late, afterClosed>>

\* signalListenerRemoval, case ml.removeListenerCh <- id; then the worker returns.
WSignalSend(l) ==
    /\ wpc[l] = "signal"
    /\ Len(removeListenerCh) < RemoveChCap
    /\ removeListenerCh' = Append(removeListenerCh, wid[l])
    /\ senders' = Append(senders, l)
    /\ recoverAndCleanup(l)
    /\ UNCHANGED <<isClosed, isShuttingDown, listeners, mu, connCh, closeCh, wid>>
    /\ NoCall
    /\ UNCHANGED <<listenerVars, loopVars, delivered, closedConns, signals, walks,
                   errs, panics, lrfrom, late, afterClosed>>

\* signalListenerRemoval without the closeCh case: only the send ends it.
WSignalClosedNever(l) ==
    /\ wpc[l] = "signal"
    /\ FALSE
    /\ UNCHANGED vars

\* signalListenerRemoval, case <-ml.closeCh; then the worker returns.
WSignalClosed(l) ==
    /\ wpc[l] = "signal"
    /\ closeCh
    /\ recoverAndCleanup(l)
    /\ UNCHANGED <<isClosed, isShuttingDown, listeners, mu, connCh, closeCh,
                   removeListenerCh, wid>>
    /\ NoCall
    /\ UNCHANGED <<listenerVars, loopVars, historyVars>>

\* A send that puts the value anywhere in the channel, as a forward handed to a
\* goroutine of its own would.
SendAnywhere(ch, r) ==
    {SubSeq(ch, 1, k) \o <<r>> \o SubSeq(ch, k + 1, Len(ch)) : k \in 0 .. Len(ch)}

\* A channel send: the value goes behind those already buffered.
Send(ch, r) == {Append(ch, r)}

\* A forward that gives up without a word when it should send: the connection is
\* neither sent nor closed.
WForwardDrop(l) ==
    /\ wpc[l] = "forward"
    /\ Len(connCh) < ConnChCap
    /\ WGoto(l, "probe")
    /\ UNCHANGED <<isClosed, isShuttingDown, listeners, mu, connCh, closeCh,
                   removeListenerCh, wid>>
    /\ NoCall
    /\ UNCHANGED <<listenerVars, loopVars, historyVars>>

\* forwardConnection, case ml.connCh <- ConnResult{Conn: conn, src: id}.
WForwardSend(l) ==
    /\ wpc[l] = "forward"
    /\ Len(connCh) < ConnChCap
    /\ connCh' \in Send(connCh, Held(l))
    /\ WGoto(l, "probe")
    /\ UNCHANGED <<isClosed, isShuttingDown, listeners, mu, closeCh, removeListenerCh,
                   wid>>
    /\ NoCall
    /\ UNCHANGED <<listenerVars, loopVars, historyVars>>

\* forwardConnection, case <-ml.closeCh: conn.Close().
WForwardClosed(l) ==
    /\ wpc[l] = "forward"
    /\ closeCh
    /\ closedConns' = closedConns \cup {<<l, lnext[l]>>}
    /\ WGoto(l, "probe")
    /\ UNCHANGED <<isClosed, isShuttingDown, listeners, mu, connCh, closeCh,
                   removeListenerCh, wid>>
    /\ NoCall
    /\ UNCHANGED <<listenerVars, loopVars, panics, senders, lrfrom, late, afterClosed, delivered, signals, walks, errs>>

\* A forward that on timeout closes the connection and takes the listener for
\* broken: the worker publishes nothing and returns.
WForwardTimeoutExit(l) ==
    /\ wpc[l] = "forward"
    /\ Len(connCh) >= ConnChCap
    /\ closedConns' = closedConns \cup {<<l, lnext[l]>>}
    /\ recoverAndCleanup(l)
    /\ UNCHANGED <<isClosed, isShuttingDown, listeners, mu, connCh, closeCh,
                   removeListenerCh, wid>>
    /\ NoCall
    /\ UNCHANGED <<listenerVars, loopVars, panics, senders, lrfrom, late, afterClosed,
                   delivered, signals, walks, errs>>

\* forwardConnection, case <-time.After(5 s): the send stayed blocked; conn.Close().
WForwardTimeout(l) ==
    /\ wpc[l] = "forward"
    /\ Len(connCh) >= ConnChCap
    /\ closedConns' = closedConns \cup {<<l, lnext[l]>>}
    /\ WGoto(l, "probe")
    /\ UNCHANGED <<isClosed, isShuttingDown, listeners, mu, connCh, closeCh,
                   removeListenerCh, wid>>
    /\ NoCall
    /\ UNCHANGED <<listenerVars, loopVars, panics, senders, lrfrom, late, afterClosed, delivered, signals, walks, errs>>

\* ----------------------------------------------------------- removal loop
\* The supervisor's background loop, case id := <-ml.removeListenerCh.
LoopRecv ==
    /\ lpc = "recv"
    /\ removeListenerCh # <<>>
    /\ lrid' = Head(removeListenerCh)
    /\ removeListenerCh' = Tail(removeListenerCh)
    /\ lpc' = "remove"
    /\ lrfrom' = Head(senders)
    /\ senders' = Tail(senders)
    /\ UNCHANGED <<isClosed, isShuttingDown, listeners, mu, connCh, closeCh, listenerWg>>
    /\ NoCall
    /\ UNCHANGED <<workerVars, listenerVars, delivered, closedConns, signals, walks,
                   errs, panics, late, afterClosed>>

\* Under the lock: the entry of that id, if any, is closed and deleted.
LoopRemove ==
    /\ lpc = "remove"
    /\ mu = "free"
    /\ IF listeners[lrid] # Nil
       THEN /\ lclosed' = [lclosed EXCEPT ![listeners[lrid]] = TRUE]
            /\ listeners' = [listeners EXCEPT ![lrid] = Nil]
       ELSE UNCHANGED <<lclosed, listeners>>
    /\ lpc' = "recv"
    /\ lrid' = NoId
    /\ lrfrom' = Nil
    /\ UNCHANGED <<isClosed, isShuttingDown, mu, connCh, closeCh, removeListenerCh,
                   listenerWg, lnext>>
    /\ NoCall
    /\ UNCHANGED <<workerVars, delivered, closedConns, signals, walks, errs, panics,
                   senders, late, afterClosed>>

\* The loop, case <-ml.closeCh: it ends.
LoopExit ==
    /\ lpc = "recv"
    /\ closeCh
    /\ lpc' = "exit"
    /\ UNCHANGED lrid
    /\ NoCall
    /\ UNCHANGED <<supervisorVars, workerVars, listenerVars, historyVars>>

\* ------------------------------------------------------------ transitions
Next ==
    \/ \E c \in Callers : AddListenerNil(c)
    \/ \E c \in Callers, id \in Ids : AddListenerTest(c, id)
    \/ \E c \in Callers : AddListenerInsert(c)
    \/ \E c \in Callers, id \in Ids : RemoveListener(c, id)
    \/ \E c \in Callers : CloseSwap(c)
    \/ \E c \in Callers : CloseSignal(c)
    \/ \E c \in Callers : CloseWalk(c)
    \/ \E c \in Callers : CloseReturn(c)
    \/ \E c \in Callers : AcceptCall(c)
    \/ \E c \in Callers : AcceptRecv(c)
    \/ \E c \in Callers : AcceptWake(c)
    \/ \E c \in Callers : AcceptRecheck(c)
    \/ \E c \in Callers : WaitForShutdownCall(c)
    \/ \E c \in Callers : WaitForShutdownWait(c)
    \/ \E c \in Callers : WaitForShutdownDone(c)
    \/ \E c \in Callers : WaitForShutdownDeadline(c)
    \/ \E l \in Listeners : WProbe(l)
    \/ \E l \in Listeners : WAcceptConn(l)
    \/ \E l \in Listeners : WAcceptTimeout(l)
    \/ \E l \in Listeners : WAcceptTransient(l)
    \/ \E l \in Listeners : WBackoff(l)
    \/ \E l \in Listeners : WAcceptError(l)
    \/ \E l \in Listeners : WAcceptPanic(l)
    \/ \E l \in Listeners : WClassify(l)
    \/ \E l \in Listeners : WSignalSend(l)
    \/ \E l \in Listeners : WSignalClosed(l)
    \/ \E l \in Listeners : WForwardSend(l)
    \/ \E l \in Listeners : WForwardClosed(l)
    \/ \E l \in Listeners : WForwardTimeout(l)
    \/ LoopRecv
    \/ LoopRemove
    \/ LoopExit

Spec == Init /\ [][Next]_vars

\* The fan-in alone: listeners are registered and deliver, callers accept; no
\* listener fails, none is removed and the supervisor is not closed.  The callers
\* make the calls that register every listener and accept every connection.
FanInInit == Start(MaxListeners * (MaxConns + 1))

FanInNext ==
    \/ \E c \in Callers, id \in Ids : AddListenerTest(c, id)
    \/ \E c \in Callers : AddListenerInsert(c)
    \/ \E c \in Callers : AcceptCall(c)
    \/ \E c \in Callers : AcceptRecv(c)
    \/ \E l \in Listeners : WProbe(l)
    \/ \E l \in Listeners : WAcceptConn(l)
    \/ \E l \in Listeners : WAcceptTimeout(l)
    \/ \E l \in Listeners : WAcceptTransient(l)
    \/ \E l \in Listeners : WBackoff(l)
    \/ \E l \in Listeners : WForwardSend(l)
    \/ \E l \in Listeners : WForwardTimeout(l)

FanInSpec == FanInInit /\ [][FanInNext]_vars

\* ---------------------------------------------------------------- fairness
\* A goroutine that can take a step takes one: the Go scheduler starves none.
\* A worker past listener.Accept() goes on.
WorkerStep(l) ==
    \/ WProbe(l) \/ WBackoff(l) \/ WClassify(l)
    \/ WSignalSend(l) \/ WSignalClosed(l)
    \/ WForwardSend(l) \/ WForwardClosed(l) \/ WForwardTimeout(l)

\* The accept of a closed inner listener returns (with its error); that of an open
\* one may block for ever.
ClosedAccept(l) == lclosed[l] /\ WAcceptError(l)

\* A caller inside AddListener, Close or Accept goes on when it can; nothing
\* obliges a caller to make a call, and a WaitForShutdown waits as it likes.
CallerStep(c) ==
    \/ AddListenerInsert(c)
    \/ CloseSignal(c) \/ CloseWalk(c) \/ CloseReturn(c)
    \/ AcceptRecv(c) \/ AcceptWake(c) \/ AcceptRecheck(c)

Fairness ==
    /\ \A l \in Listeners : WF_vars(WorkerStep(l)) /\ WF_vars(ClosedAccept(l))
    /\ \A c \in Callers : WF_vars(CallerStep(c))

\* The same runs, under fair scheduling.
LiveInit == Start(MaxCalls)

LiveSpec == LiveInit /\ [][Next]_vars /\ Fairness

\* The runs with one call fewer, under fair scheduling.
ShortInit == Start(MaxCalls - 1)

ShortSpec == ShortInit /\ [][Next]_vars /\ Fairness

\* The runs in which the Close of any of the inner listeners may fail.
CloseErrInit == \E F \in SUBSET Listeners : StartWith(MaxCalls, F)

CloseErrSpec == CloseErrInit /\ [][Next]_vars

\* The removal loop is a goroutine like the others.
LoopStep == LoopRecv \/ LoopRemove \/ LoopExit

RemovalSpec == LiveInit /\ [][Next]_vars /\ Fairness /\ WF_vars(LoopStep)

\* ------------------------------------------------------------- properties
RegistryEmpty == \A i \in Ids : listeners[i] = Nil

\* The step is the return of a call of op; the primed ret describes it.
Returns(op) == ret'.op = op

\* The step adds no entry to the registry and starts no worker.
NoRegistration == UNCHANGED <<listeners, listenerWg, wpc>>

\* C1 (amended): once Close has set the closed flag, every AddListener call with a
\* listener that is not nil returns the closed error, inserts no entry and starts
\* no worker, also while that Close is still in progress; and whenever the
\* supervisor is closed and Close has finished its walk, the registry is empty.
C1_ClosedRefusesAdd ==
    /\ []((isClosed # 0 /\ walks > 0) => RegistryEmpty)
    /\ [][(Returns("AddListener") /\ ret'.after /\ ret'.res # ErrNilListener)
            => (ret'.res = ErrListenerClosed /\ NoRegistration)]_vars

\* C1 as stated: every AddListener call made once the closed flag is set returns
\* the closed error.
C1_Original ==
    /\ []((isClosed # 0 /\ walks > 0) => RegistryEmpty)
    /\ [][(Returns("AddListener") /\ ret'.after)
            => (ret'.res = ErrListenerClosed /\ NoRegistration)]_vars

\* An AddListener call was refused with the closed error while the Close that set
\* the flag had not yet walked the registry, which still held an entry.
C1_Witness ==
    /\ ret.op = "AddListener" /\ ret.after /\ ret.res = ErrListenerClosed
    /\ walks = 0
    /\ ~RegistryEmpty

ProgramVars == <<supervisorVars, workerVars, listenerVars, loopVars>>

\* C3: Close is idempotent.  The shutdown signal is raised at most once and the
\* registry is walked at most once; the Close call that returns having performed
\* the shutdown did both exactly once; every other Close call returns nil and
\* changes no state; the closed flag never goes back.
C3_CloseIdempotent ==
    /\ [](signals <= 1 /\ walks <= 1)
    /\ []((ret.op = "Close" /\ ~ret.after) => (signals = 1 /\ walks = 1))
    /\ [][(Returns("Close") /\ ret'.after) => (ret'.res = Ok /\ UNCHANGED ProgramVars)]_vars
    /\ [][isClosed # 0 => isClosed' = isClosed]_vars

\* A Close call returned nil without performing the shutdown, while the call that
\* performs it had raised the signal and not yet walked the registry.
C3_Witness ==
    /\ ret.op = "Close" /\ ret.after /\ ret.res = Ok
    /\ signals = 1 /\ walks = 0
    /\ listenerWg > 0

\* C4 (amended): whenever the Close call that performs the shutdown returns, the
\* worker-group counter is zero.
C4_CloseWaitsForWorkers == (ret.op = "Close" /\ ~ret.after) => listenerWg = 0

\* C4 as stated: whenever any Close call returns, the worker-group counter is zero.
C4_Original == ret.op = "Close" => listenerWg = 0

\* The Close call that performed the shutdown returned, after two workers ran.
C4_Witness ==
    /\ ret.op = "Close" /\ ~ret.after
    /\ \A l \in Listeners : wpc[l] = "done"

\* C7: Accept never returns the no-active-listeners error.  It returns a
\* connection only by taking one out of connCh, and an error only when the closed
\* flag is set, that error being the closed error; with no listener registered it
\* therefore blocks.
C7_AcceptNeverNoListeners ==
    [][Returns("Accept") =>
        \/ ret'.res = GotConn /\ connCh # <<>> /\ connCh' = Tail(connCh)
        \/ ret'.res = ErrListenerClosed /\ isClosed # 0]_vars

\* An Accept call is blocked on an open supervisor whose registry is empty after
\* a listener was registered and went away.
C7_Witness ==
    /\ \E c \in Callers : cpc[c] = "acc_wait"
    /\ isClosed = 0
    /\ RegistryEmpty
    /\ \E l \in Listeners : wpc[l] = "done"
    /\ connCh = <<>>

\* C8: every connection Accept returned was handed out by the accept of an inner
\* listener that had been registered, under the id it carries.
C8_ConnFromRegistered ==
    \A l \in Listeners : \A k \in 1 .. Len(delivered[l]) :
        /\ wid[l] \in Ids
        /\ delivered[l][k][1] = wid[l]
        /\ delivered[l][k][2] \in 1 .. lnext[l]

\* Accept returned a connection of a listener that is no longer registered.
C8_Witness ==
    \E l \in Listeners :
        /\ delivered[l] # <<>>
        /\ \A i \in Ids : listeners[i] # l
        /\ isClosed = 0

\* C9: for every source listener, the connections Accept takes out of connCh come
\* in the order in which that listener's worker accepted them.
C9_PerSourceOrder ==
    \A l \in Listeners : \A j, k \in 1 .. Len(delivered[l]) :
        j < k => delivered[l][j][2] < delivered[l][k][2]

\* Two connections of one source were returned while the other source had a
\* connection under way as well.
C9_Witness ==
    \E l, m \in Listeners :
        /\ l # m
        /\ Len(delivered[l]) = 2
        /\ lnext[m] > 0

\* No worker goroutine is running and none is about to be started.
WorkersGone ==
    /\ listenerWg = 0
    /\ \A l \in Listeners : wpc[l] \in {"none", "done"}
    /\ \A c \in Callers : cpc[c] # "add_insert"

\* C5: once a Close call has set the closed flag, whatever the workers are doing
\* (waiting in accept, backing off, forwarding, publishing a removal), every
\* worker exits and the worker-group counter reaches zero, under fair scheduling
\* and inner listeners whose accept returns once they are closed.
C5_CloseDrainsWorkers == (isClosed # 0) ~> WorkersGone

\* The supervisor is closed and drained after both workers ran, one of which was
\* forwarding a connection that it closed instead.
C5_Witness ==
    /\ isClosed # 0
    /\ listenerWg = 0
    /\ \A l \in Listeners : wpc[l] = "done"
    /\ closedConns # {}

InAccept(c) == cpc[c] \in {"acc_wait", "acc_recheck"}

\* C6: an Accept call that is waiting when the closed flag is set returns in
\* finite time; an Accept call returns a connection or the closed error and
\* nothing else; one that starts after the flag is set returns the closed error.
C6_AcceptEndsOnClose ==
    /\ [][Returns("Accept") => ret'.res \in {GotConn, ErrListenerClosed}]_vars
    /\ [][(Returns("Accept") /\ ret'.after) => ret'.res = ErrListenerClosed]_vars
    /\ \A c \in Callers : (InAccept(c) /\ isClosed # 0) ~> ~InAccept(c)

\* An Accept call that was waiting when Close began returned the closed error.
C6_Witness == ret.op = "Accept" /\ ~ret.after /\ ret.res = ErrListenerClosed

\* The numbers of the connections of listener l in a sequence of ConnResult.
RECURSIVE NumbersOf(_, _)
NumbersOf(l, ch) ==
    IF ch = <<>> THEN <<>>
    ELSE (IF Head(ch).lis = l THEN <<Head(ch).n>> ELSE <<>>) \o NumbersOf(l, Tail(ch))

\* What became of the connections listener l handed out and no worker closed:
\* those Accept returned, those waiting in connCh, the one its worker holds.
Accounted(l) ==
    [k \in 1 .. Len(delivered[l]) |-> delivered[l][k][2]]
        \o NumbersOf(l, connCh)
        \o (IF wpc[l] = "forward" THEN <<lnext[l]>> ELSE <<>>)

\* No listener removed itself or was removed, and the supervisor is not closed.
NoRemovalOrClose ==
    /\ isClosed = 0
    /\ \A l \in Listeners : wpc[l] \notin {"classify", "signal", "done"} /\ ~lclosed[l]

\* Every listener has handed out its MaxConns connections and none is under way.
AllProduced ==
    /\ \A l \in Listeners : lnext[l] = MaxConns /\ wpc[l] \in {"probe", "accept", "backoff"}
    /\ connCh = <<>>

\* C10 (amended): with no self-removal, no close and no forward that timed out,
\* the connections of every source are accounted for in producer order, none lost
\* and none twice: returned by Accept, waiting in connCh, or held by the worker.
\* So once N listeners produced K connections each and connCh is drained, Accept
\* has returned exactly N*K connections, K of each source in producer order.
C10_RoundTrip ==
    (NoRemovalOrClose /\ closedConns = {}) =>
        \A l \in Listeners : Accounted(l) = [k \in 1 .. lnext[l] |-> k]

\* C10 as stated: with no self-removal or close, once N listeners produced K
\* connections each and nothing is under way, Accept has returned N*K.
C10_Original ==
    (NoRemovalOrClose /\ AllProduced) =>
        \A l \in Listeners : Accounted(l) = [k \in 1 .. MaxConns |-> k]

\* Every listener produced MaxConns connections and Accept returned them all.
C10_Witness ==
    /\ NoRemovalOrClose /\ AllProduced /\ closedConns = {}
    /\ \A l \in Listeners : Len(delivered[l]) = MaxConns

\* ListenerIDs and Count: the ids of the registry and their number.
ListenerIDs == {i \in Ids : listeners[i] # Nil}
Count == Cardinality(ListenerIDs)

\* Listener l is in no entry of the registry.
Unregistered(l) == \A i \in Ids : listeners[i] # l

\* The step is the removal loop deleting the entry of the id it received.
LoopRemoves == lpc = "remove" /\ lpc' = "recv"

\* C11: when the accept of a registered listener fails with a permanent error
\* while the supervisor is open, then eventually that listener is in no entry, it
\* has been closed and its worker has exited; and the removal deletes the one
\* entry of the published id (Count drops by exactly one), closes the listener of
\* that entry alone and touches no worker, no other entry and no connection.
C11_PermanentErrorRemoves ==
    /\ \A l \in Listeners :
        (wpc[l] = "signal" /\ isClosed = 0)
            ~> (wpc[l] = "done" /\ lclosed[l] /\ Unregistered(l))
    /\ [][LoopRemoves =>
            /\ \A i \in Ids \ {lrid} : listeners'[i] = listeners[i]
            /\ listeners'[lrid] = Nil
            /\ \A l \in Listeners \ {listeners[lrid]} : lclosed'[l] = lclosed[l]
            /\ listeners[lrid] # Nil =>
                (Count' = Count - 1 /\ lclosed'[listeners[lrid]])
            /\ UNCHANGED <<wpc, wid, listenerWg, connCh, lnext>>]_vars

\* On an open supervisor the removal loop has taken away a failed listener, whose
\* worker is gone, while the other listener is registered, open, served by its
\* worker and has delivered a connection.
C11_Witness ==
    \E l, m \in Listeners :
        /\ isClosed = 0 /\ lpc = "recv" /\ removeListenerCh = <<>>
        /\ wpc[l] = "done" /\ lclosed[l] /\ Unregistered(l)
        /\ ~Unregistered(m) /\ ~lclosed[m] /\ wpc[m] = "accept"
        /\ delivered[m] # <<>>
        /\ Count = 1

\* The step is a successful AddListener of caller c returning.
AddReturnsOk(c) == cpc[c] = "add_insert" /\ cpc'[c] = "idle"

\* The step is the registry walk of Close.
CloseWalks == \E c \in Callers : cpc[c] = "close_walk" /\ cpc'[c] = "close_wait"

\* C12: the registry keeps count.  A successful AddListener adds its id, which
\* was absent, and Count goes up by one; a successful RemoveListener and a
\* self-removal that finds its entry each take one id away and Count goes down by
\* one; no other step but the walk of Close changes ListenerIDs or Count.  So once
\* the calls and self-removals on an open supervisor are over, Count is the number
\* of registrations minus unregistrations minus self-removals and ListenerIDs is
\* the set of ids registered and not since removed.
C12_RegistryKeepsCount ==
    [][IF \E c \in Callers : AddReturnsOk(c)
       THEN \E c \in Callers :
                /\ AddReturnsOk(c)
                /\ cid[c] \notin ListenerIDs
                /\ ListenerIDs' = ListenerIDs \cup {cid[c]}
                /\ Count' = Count + 1
       ELSE IF Returns("RemoveListener") /\ ret'.res = Ok
       THEN /\ \E i \in ListenerIDs : ListenerIDs' = ListenerIDs \ {i}
            /\ Count' = Count - 1
       ELSE IF LoopRemoves /\ lrid \in ListenerIDs
       THEN /\ ListenerIDs' = ListenerIDs \ {lrid}
            /\ Count' = Count - 1
       ELSE IF CloseWalks
       THEN ListenerIDs' = {}
       ELSE ListenerIDs' = ListenerIDs /\ Count' = Count]_vars

\* On an open supervisor two listeners were registered, one removed itself and
\* the other has just been unregistered: Count is 2 - 1 - 1.
C12_Witness ==
    /\ isClosed = 0
    /\ ret.op = "RemoveListener" /\ ret.res = Ok
    /\ calls = 3
    /\ \A l \in Listeners : wid[l] \in Ids /\ lclosed[l]
    /\ lpc = "recv" /\ removeListenerCh = <<>>
    /\ Count = 0

\* C13: RemoveListener(id) with id absent returns the not-found error and changes
\* nothing; with id present it returns nil having, in one step under the lock,
\* closed the listener of that entry and deleted that entry and no other; it
\* changes no worker and not the worker-group counter, so it does not wait for
\* the entry's worker.
C13_RemoveListener ==
    [][Returns("RemoveListener") =>
        IF listeners[ret'.id] = Nil
        THEN ret'.res = ErrNotFound /\ UNCHANGED ProgramVars
        ELSE /\ ret'.res = Ok
             /\ listeners' = [listeners EXCEPT ![ret'.id] = Nil]
             /\ lclosed' = [lclosed EXCEPT ![listeners[ret'.id]] = TRUE]
             /\ UNCHANGED <<isClosed, isShuttingDown, mu, connCh, closeCh,
                            removeListenerCh, listenerWg, lnext>>
             /\ UNCHANGED <<workerVars, loopVars>>]_vars

\* RemoveListener has just returned nil: its listener is closed and out of the
\* registry while its worker still sits in accept, and the other entry is intact.
C13_Witness ==
    /\ ret.op = "RemoveListener" /\ ret.res = Ok
    /\ listeners[ret.id] = Nil
    /\ \E l, m \in Listeners :
        /\ wid[l] = ret.id /\ lclosed[l] /\ wpc[l] = "accept"
        /\ ~Unregistered(m) /\ ~lclosed[m]
    /\ listenerWg = 2

\* C14: an AddListener that returns an error (nil listener, duplicate id, closed,
\* shutting down) changes nothing: not the registry, not the entry of the id, not
\* the worker-group counter.  One that returns nil was given a listener and an id
\* the registry did not hold, so a nil listener and a duplicate id are refused; it
\* adds that one entry, raises the counter by one and starts the one worker of its
\* listener.
C14_AddListenerAllOrNothing ==
    [][Returns("AddListener") =>
        IF ret'.res = Ok
        THEN \E c \in Callers :
                /\ AddReturnsOk(c)
                /\ clis[c] \in Listeners
                /\ listeners[cid[c]] = Nil
                /\ listeners' = [listeners EXCEPT ![cid[c]] = clis[c]]
                /\ listenerWg' = listenerWg + 1
                /\ wpc[clis[c]] = "none"
                /\ wpc' = [wpc EXCEPT ![clis[c]] = "probe"]
        ELSE UNCHANGED ProgramVars]_vars

\* An AddListener with an id the registry holds was refused on an open supervisor
\* that is not shutting down; the entry and its worker are as they were.
C14_Witness ==
    /\ ret.op = "AddListener" /\ ret.res = ErrExists
    /\ isClosed = 0 /\ isShuttingDown = 0
    /\ Count = 1 /\ listenerWg = 1
    /\ \E l \in Listeners : ~Unregistered(l) /\ wpc[l] = "accept"

\* The Close call that performs the shutdown has returned.
CloseDone ==
    /\ walks > 0
    /\ \A c \in Callers : cpc[c] \notin {"close_lock", "close_walk", "close_wait"}

\* Every listener that was ever in the registry has had its Close invoked.
AllRegisteredClosed == \A l \in Listeners : wid[l] \in Ids => lclosed[l]

\* C15 (amended): once the Close call that performs the shutdown has returned, the
\* registry is empty (Count is 0, ListenerIDs is empty) and every listener that
\* was in the registry when Close began, or at any time, has had its close
\* invoked.
C15_CloseEmptiesRegistry ==
    CloseDone => (RegistryEmpty /\ Count = 0 /\ ListenerIDs = {} /\ AllRegisteredClosed)

\* C15 as stated: after a Close call returns, the registry is empty and the
\* listeners that were registered are closed.
C15_Original == ret.op = "Close" => (RegistryEmpty /\ AllRegisteredClosed)

\* The Close that performed the shutdown has just returned; both listeners had
\* been registered and were still in the registry when it began its walk.
C15_Witness ==
    /\ ret.op = "Close" /\ ~ret.after
    /\ CloseDone
    /\ calls = 3
    /\ \A l \in Listeners : wid[l] \in Ids /\ lclosed[l]
    /\ removeListenerCh = <<>> /\ lpc = "exit" /\ lrid = NoId

\* C16: the walk of Close invokes Close on every listener of the registry, whether
\* or not one of them fails, collects the error of each one that fails, and
\* empties the registry, the shutdown signal being raised already; the Close call
\* that performs the shutdown returns only with the workers drained, and it
\* returns nil exactly when no inner Close failed, the combined error otherwise.
C16_CloseErrorsCombined ==
    /\ [][CloseWalks =>
            /\ closeCh
            /\ \A l \in Listeners : lclosed'[l] = (lclosed[l] \/ ~Unregistered(l))
            /\ errs' = {l \in Listeners : ~Unregistered(l) /\ l \in failing}
            /\ \A i \in Ids : listeners'[i] = Nil]_vars
    /\ []((ret.op = "Close" /\ ~ret.after) =>
            /\ ret.res = (IF errs = {} THEN Ok ELSE ErrCloseListeners)
            /\ listenerWg = 0 /\ RegistryEmpty /\ closeCh
            /\ AllRegisteredClosed)

\* Close returned the combined error: the Close of one registered listener had
\* failed, the other listener was closed all the same and both workers are gone.
C16_Witness ==
    /\ ret.op = "Close" /\ ~ret.after /\ ret.res = ErrCloseListeners
    /\ Cardinality(errs) = 1 /\ Cardinality(failing) = 1
    /\ \A l \in Listeners : wid[l] \in Ids /\ lclosed[l] /\ wpc[l] = "done"
    /\ lpc = "exit" /\ removeListenerCh = <<>>

\* The helper goroutine of WaitForShutdown passes listenerWg.Wait().
WaitObserved(c) == cpc[c] = "wfs_wait" /\ cpc'[c] = "wfs_done"

\* C17 as stated: WaitForShutdown returns nil only in a state where the
\* worker-group counter is zero.
C17_Original ==
    (ret.op = "WaitForShutdown" /\ ret.res = Ok) => listenerWg = 0

\* C17: WaitForShutdown returns nil only after its helper goroutine has seen
\* the worker-group counter at zero, and the helper passes the wait only in
\* a state where the counter is zero; otherwise it returns the deadline
\* error.  The step that returns, with either result, changes no worker, no
\* registry entry, no flag and no channel.
C17_WaitForShutdownObservesZero ==
    /\ [][\A c \in Callers : WaitObserved(c) => listenerWg = 0]_vars
    /\ [][Returns("WaitForShutdown") =>
            /\ UNCHANGED ProgramVars
            /\ ret'.res \in {Ok, ErrDeadline}
            /\ ret'.res = Ok =>
                  \E c \in Callers : cpc[c] = "wfs_done" /\ cpc'[c] = "idle"
            /\ ret'.res = ErrDeadline =>
                  \E c \in Callers : /\ cpc[c] \in {"wfs_wait", "wfs_done"}
                                     /\ cpc'[c] = "idle"]_vars

\* WaitForShutdown has returned nil after a worker ran and exited.
C17_Witness ==
    /\ ret.op = "WaitForShutdown" /\ ret.res = Ok
    /\ listenerWg = 0
    /\ \E l \in Listeners : wpc[l] = "done"

\* The worker of listener l panics in this step.
Panics(l) == l \in panics' \ panics

\* The Close that performs the shutdown is under way.
ClosePending == \E c \in Callers : cpc[c] \in {"close_lock", "close_walk", "close_wait"}

\* C18: a panic in a worker's accept loop ends that worker alone and takes one
\* off the worker-group counter: no other worker, no registry entry, no flag,
\* no channel, no lock and no inner listener changes in that step; the worker
\* never runs again, and the counter only ever goes down by one, together with
\* one worker exiting.  After a panic AddListener is refused only for its usual
\* reasons, and a Close under way after a panic returns, with the counter at zero.
C18_PanicEndsOneWorker ==
    /\ [][\A l \in Listeners : Panics(l) =>
            /\ wpc[l] = "accept"
            /\ wpc' = [wpc EXCEPT ![l] = "done"]
            /\ listenerWg' = listenerWg - 1
            /\ UNCHANGED <<isClosed, isShuttingDown, listeners, mu, connCh, closeCh,
                           removeListenerCh, wid, listenerVars, loopVars,
                           cpc, cid, clis>>]_vars
    /\ [][\A l \in panics : wpc'[l] = "done"]_vars
    /\ [][listenerWg' < listenerWg =>
            /\ listenerWg' = listenerWg - 1
            /\ \E l \in Listeners :
                  wpc[l] # "done" /\ wpc' = [wpc EXCEPT ![l] = "done"]]_vars
    /\ [][(panics # {} /\ Returns("AddListener") /\ ret'.res # Ok) =>
            \/ ret'.res = ErrNilListener
            \/ ret'.res = ErrListenerClosed /\ isClosed # 0
            \/ ret'.res = ErrShutdown /\ isShuttingDown # 0
            \/ ret'.res = ErrExists /\ ListenerIDs # {}]_vars
    /\ []((panics # {} /\ ret.op = "Close" /\ ~ret.after) => listenerWg = 0)
    /\ (panics # {} /\ ClosePending) ~> (ret.op = "Close" /\ ~ret.after /\ listenerWg = 0)

\* After a worker panicked, a registration under another id has succeeded: the
\* panicked worker's entry is still in the registry and only the new worker counts.
C18_Witness ==
    /\ panics # {}
    /\ ret.op = "AddListener" /\ ret.res = Ok
    /\ Count = 2
    /\ listenerWg = 1

\* ---- The Mirror profile: Mirror.Listen and Mirror.Close ----

coreVars == <<supervisorVars, workerVars, listenerVars, failing, loopVars,
              cpc, cid, clis, calls, limit, ret, historyVars>>

\* The ports on which a TCP socket of an open supervisor listens.
Bound == {sport[s] : s \in Supervisors \ sclosed} \ {NoPort}

\* A Mirror.Listen that returns the embedded supervisor instead of a new one.
embeddedMetaListener == Embedded

\* newMetaListener := meta.NewMetaListener(): the next supervisor not yet built.
newMetaListener == nextSup + 1

\* AddListener on the supervisor the call builds: it is open, and the ids of one
\* call differ, so the entry is added.
Register(m, id) == sreg' = [sreg EXCEPT ![msup[m]] = @ \cup {id}]

MGoto(m, pc) ==
    /\ mpc' = [mpc EXCEPT ![m] = pc]
    /\ mret' = NoMRet
    /\ UNCHANGED <<mport, mtls, msup, mafter, handed>>

\* Mirror.Listen returns: the new supervisor with a nil error, or nil with the
\* error.
MReturn(m, r) ==
    /\ mpc' = [mpc EXCEPT ![m] = "idle"]
    /\ mret' = [op |-> "Listen", res |-> r,
                sup |-> IF r = Ok THEN msup[m] ELSE NoSup,
                port |-> mport[m], tls |-> mtls[m], after |-> mafter[m]]
    /\ handed' = IF r = Ok THEN [handed EXCEPT ![msup[m]] = @ + 1] ELSE handed
    /\ msup' = [msup EXCEPT ![m] = NoSup]
    /\ mport' = [mport EXCEPT ![m] = NoPort]
    /\ mtls' = [mtls EXCEPT ![m] = FALSE]
    /\ mafter' = [mafter EXCEPT ![m] = FALSE]

\* Mirror.Listen(name, addr): the port comes from name, tls says addr is not empty.
Listen(m, port, tls) ==
    /\ mpc[m] = "idle"
    /\ listens < mlimit
    /\ listens' = listens + 1
    /\ msup' = [msup EXCEPT ![m] = newMetaListener]
    /\ nextSup' = IF newMetaListener = Embedded THEN nextSup ELSE nextSup + 1
    /\ mport' = [mport EXCEPT ![m] = port]
    /\ mtls' = [mtls EXCEPT ![m] = tls]
    /\ mafter' = [mafter EXCEPT ![m] = (kpc = "done")]
    /\ mpc' = [mpc EXCEPT ![m] = "tcp"]
    /\ mret' = NoMRet
    /\ UNCHANGED <<mirrorEnv, mheld, closedManagers, stale, Onions, Garlics, mmu, sreg, sport,
                   sclosed, kpc, handed, overwrites>>
    /\ UNCHANGED coreVars

\* net.Listen on 127.0.0.1:port fails while another socket listens there;
\* otherwise the hardened listener is registered under the port.
setupLocalTCPListener(m) ==
    /\ mpc[m] = "tcp"
    /\ IF mport[m] \in Bound
       THEN /\ MReturn(m, ErrBind)
            /\ UNCHANGED <<sreg, sport>>
       ELSE /\ sport' = [sport EXCEPT ![msup[m]] = mport[m]]
            /\ Register(m, "tcp")
            /\ MGoto(m, "ensure")
    /\ UNCHANGED <<mirrorEnv, mheld, closedManagers, stale, Onions, Garlics, mmu, nextSup, sclosed,
                   kpc, listens, overwrites>>
    /\ UNCHANGED coreVars

\* ensureHiddenServiceListeners that does not take the lock.
ensureNoLock(m) ==
    /\ mpc[m] = "ensure"
    /\ MGoto(m, "ens_onion")
    /\ UNCHANGED <<mirrorEnv, mheld, closedManagers, stale, Onions, Garlics, mmu, nextSup, sreg,
                   sport, sclosed, kpc, listens, overwrites>>
    /\ UNCHANGED coreVars

\* ensureHiddenServiceListeners: ml.mu.Lock().
ensureLock(m) ==
    /\ mpc[m] = "ensure"
    /\ mmu = Unlocked
    /\ mmu' = m
    /\ MGoto(m, "ens_onion")
    /\ UNCHANGED <<mirrorEnv, mheld, closedManagers, stale, Onions, Garlics, nextSup, sreg, sport,
                   sclosed, kpc, listens, overwrites>>
    /\ UNCHANGED coreVars

\* A deferred unlock that is left out.
ensureUnlockNever(m) == mmu

\* The deferred ml.mu.Unlock() of ensureHiddenServiceListeners.
ensureUnlock(m) == IF mmu = m THEN Unlocked ELSE mmu

\* An ensureHiddenServiceListeners that makes an onion manager whatever the map
\* holds.
ensureOnionTestAlways(m) ==
    /\ mpc[m] = "ens_onion"
    /\ MGoto(m, IF ~DisableTor THEN "ens_onion_new" ELSE "ens_garlic")
    /\ UNCHANGED <<mirrorEnv, mheld, closedManagers, stale, Onions, Garlics, mmu,
                   nextSup, sreg, sport, sclosed, kpc, listens, overwrites>>
    /\ UNCHANGED coreVars

\* if ml.Onions[port] == nil && !DisableTor(): onramp.NewOnion is called.
ensureOnionTest(m) ==
    /\ mpc[m] = "ens_onion"
    /\ MGoto(m, IF ~Onions[mport[m]] /\ ~DisableTor THEN "ens_onion_new"
                ELSE "ens_garlic")
    /\ UNCHANGED <<mirrorEnv, mheld, closedManagers, stale, Onions, Garlics, mmu, nextSup, sreg,
                   sport, sclosed, kpc, listens, overwrites>>
    /\ UNCHANGED coreVars

\* onramp.NewOnion returned a manager: ml.Onions[port] = onion.
ensureOnionStore(m) ==
    /\ mpc[m] = "ens_onion_new"
    /\ Onions' = [Onions EXCEPT ![mport[m]] = TRUE]
    /\ overwrites' = IF Onions[mport[m]] THEN overwrites + 1 ELSE overwrites
    /\ MGoto(m, "ens_garlic")
    /\ UNCHANGED <<mirrorEnv, mheld, closedManagers, stale, Garlics, mmu, nextSup, sreg, sport,
                   sclosed, kpc, listens>>
    /\ UNCHANGED coreVars

\* onramp.NewOnion returned an error: Listen returns it.
ensureOnionFail(m) ==
    /\ mpc[m] = "ens_onion_new"
    /\ mmu' = ensureUnlock(m)
    /\ MReturn(m, ErrNewManager)
    /\ UNCHANGED <<mirrorEnv, mheld, closedManagers, stale, Onions, Garlics, nextSup, sreg, sport,
                   sclosed, kpc, listens, overwrites>>
    /\ UNCHANGED coreVars

\* if ml.Garlics[port] == nil && !DisableI2P(): onramp.NewGarlic is called;
\* otherwise the function returns nil.
ensureGarlicTest(m) ==
    /\ mpc[m] = "ens_garlic"
    /\ IF ~Garlics[mport[m]] /\ ~DisableI2P
       THEN MGoto(m, "ens_garlic_new") /\ mmu' = mmu
       ELSE MGoto(m, "onion") /\ mmu' = ensureUnlock(m)
    /\ UNCHANGED <<mirrorEnv, mheld, closedManagers, stale, Onions, Garlics, nextSup, sreg, sport,
                   sclosed, kpc, listens, overwrites>>
    /\ UNCHANGED coreVars

\* onramp.NewGarlic returned a manager: ml.Garlics[port] = garlic; return nil.
ensureGarlicStore(m) ==
    /\ mpc[m] = "ens_garlic_new"
    /\ Garlics' = [Garlics EXCEPT ![mport[m]] = TRUE]
    /\ overwrites' = IF Garlics[mport[m]] THEN overwrites + 1 ELSE overwrites
    /\ mmu' = ensureUnlock(m)
    /\ MGoto(m, "onion")
    /\ UNCHANGED <<mirrorEnv, mheld, closedManagers, stale, Onions, nextSup, sreg, sport, sclosed,
                   kpc, listens>>
    /\ UNCHANGED coreVars

\* onramp.NewGarlic returned an error: Listen returns it.
ensureGarlicFail(m) ==
    /\ mpc[m] = "ens_garlic_new"
    /\ mmu' = ensureUnlock(m)
    /\ MReturn(m, ErrNewManager)
    /\ UNCHANGED <<mirrorEnv, mheld, closedManagers, stale, Onions, Garlics, nextSup, sreg, sport,
                   sclosed, kpc, listens, overwrites>>
    /\ UNCHANGED coreVars

\* The manager a call got from the map of kind k: closed or not.
Got(k, p) == IF <<k, p>> \in closedManagers THEN "closed" ELSE "open"

\* The call has opened a listener from the manager it holds.
Opened(m) == stale' = IF mheld[m] = "closed" THEN stale \cup {mafter[m]} ELSE stale

\* addOnionListener: nothing when Tor is disabled; otherwise getOnionInstance
\* reads the manager of the port under the read lock.
addOnionListener(m) ==
    /\ mpc[m] = "onion"
    /\ IF DisableTor
       THEN MGoto(m, "garlic") /\ UNCHANGED mheld
       ELSE /\ mmu = Unlocked
            /\ IF ~Onions[mport[m]]
               THEN MReturn(m, ErrNoInstance) /\ UNCHANGED mheld
               ELSE /\ MGoto(m, "onion_new")
                    /\ mheld' = [mheld EXCEPT ![m] = Got("onion", mport[m])]
    /\ UNCHANGED <<mirrorEnv, closedManagers, stale, Onions, Garlics, mmu, nextSup,
                   sreg, sport, sclosed, kpc, listens, overwrites>>
    /\ UNCHANGED coreVars

\* createOnionListener and registerOnionListener: the manager's Listen or
\* ListenTLS gives a listener, which is registered, or an error.
createOnionListener(m) ==
    /\ mpc[m] = "onion_new"
    /\ mheld' = [mheld EXCEPT ![m] = "none"]
    /\ \/ MReturn(m, ErrHiddenListen) /\ UNCHANGED <<sreg, stale>>
       \/ Register(m, "onion") /\ MGoto(m, "garlic") /\ Opened(m)
    /\ UNCHANGED <<mirrorEnv, closedManagers, Onions, Garlics, mmu, nextSup, sport,
                   sclosed, kpc, listens, overwrites>>
    /\ UNCHANGED coreVars

\* addGarlicListener: the same for I2P.
addGarlicListener(m) ==
    /\ mpc[m] = "garlic"
    /\ IF DisableI2P
       THEN MGoto(m, "tls") /\ UNCHANGED mheld
       ELSE /\ mmu = Unlocked
            /\ IF ~Garlics[mport[m]]
               THEN MReturn(m, ErrNoInstance) /\ UNCHANGED mheld
               ELSE /\ MGoto(m, "garlic_new")
                    /\ mheld' = [mheld EXCEPT ![m] = Got("garlic", mport[m])]
    /\ UNCHANGED <<mirrorEnv, closedManagers, stale, Onions, Garlics, mmu, nextSup,
                   sreg, sport, sclosed, kpc, listens, overwrites>>
    /\ UNCHANGED coreVars

\* createGarlicListener and registerGarlicListener.
createGarlicListener(m) ==
    /\ mpc[m] = "garlic_new"
    /\ mheld' = [mheld EXCEPT ![m] = "none"]
    /\ \/ MReturn(m, ErrHiddenListen) /\ UNCHANGED <<sreg, stale>>
       \/ Register(m, "garlic") /\ MGoto(m, "tls") /\ Opened(m)
    /\ UNCHANGED <<mirrorEnv, closedManagers, Onions, Garlics, mmu, nextSup, sport,
                   sclosed, kpc, listens, overwrites>>
    /\ UNCHANGED coreVars

\* setupTLSListener, then return newMetaListener, nil: nothing to set up when
\* addr is empty; otherwise wileedot.New gives a listener, which is registered,
\* or an error.
setupTLSListener(m) ==
    /\ mpc[m] = "tls"
    /\ IF ~mtls[m]
       THEN MReturn(m, Ok) /\ UNCHANGED sreg
       ELSE \/ MReturn(m, ErrTLS) /\ UNCHANGED sreg
            \/ Register(m, "tls") /\ MReturn(m, Ok)
    /\ UNCHANGED <<mirrorEnv, mheld, closedManagers, stale, Onions, Garlics, mmu, nextSup, sport,
                   sclosed, kpc, listens, overwrites>>
    /\ UNCHANGED coreVars

\* The caller closes a supervisor Mirror.Listen gave it: its listeners are closed
\* and its registry is emptied.
CloseComposed(s) ==
    /\ s \in Supervisors \ sclosed
    /\ handed[s] > 0
    /\ sclosed' = sclosed \cup {s}
    /\ sreg' = [sreg EXCEPT ![s] = {}]
    /\ sport' = [sport EXCEPT ![s] = NoPort]
    /\ mret' = NoMRet
    /\ UNCHANGED <<mirrorEnv, mheld, closedManagers, stale, Onions, Garlics, mmu, nextSup,
                   mpc, mport, mtls, msup, mafter, kpc, listens, handed, overwrites>>
    /\ UNCHANGED coreVars

\* Mirror.Close: m.MetaListener.Close().
MirrorCloseEmbedded ==
    /\ kpc = "idle"
    /\ kpc' = "lock"
    /\ sclosed' = sclosed \cup {Embedded}
    /\ sreg' = [sreg EXCEPT ![Embedded] = {}]
    /\ mret' = NoMRet
    /\ UNCHANGED <<mirrorEnv, mheld, closedManagers, stale, Onions, Garlics, mmu, nextSup, sport,
                   mpc, mport, mtls, msup, mafter, listens, handed, overwrites>>
    /\ UNCHANGED coreVars

\* The managers closed by Mirror.Close that the maps O and G still hold.
StillStored(O, G) ==
    {<<"onion", p>> : p \in {q \in Ports : O[q]}}
        \cup {<<"garlic", p>> : p \in {q \in Ports : G[q]}}

\* A Mirror.Close that closes the managers and leaves them in the maps.
MirrorCloseKeepMaps ==
    /\ kpc = "lock"
    /\ mmu = Unlocked
    /\ kpc' = "done"
    /\ UNCHANGED <<Onions, Garlics>>
    /\ closedManagers' = StillStored(Onions', Garlics')
    /\ mheld' = [m \in Composers |-> IF mheld[m] = "none" THEN "none" ELSE "closed"]
    /\ mret' = NoMRet
    /\ UNCHANGED <<mirrorEnv, stale, mmu, nextSup, sreg, sport, sclosed,
                   mpc, mport, mtls, msup, mafter, listens, handed, overwrites>>
    /\ UNCHANGED coreVars

\* Mirror.Close: under the lock every manager is closed and both maps are replaced
\* by empty ones; the call returns.
MirrorCloseClear ==
    /\ kpc = "lock"
    /\ mmu = Unlocked
    /\ kpc' = "done"
    /\ Onions' = [p \in Ports |-> FALSE]
    /\ Garlics' = [p \in Ports |-> FALSE]
    /\ closedManagers' = StillStored(Onions', Garlics')
    /\ mheld' = [m \in Composers |-> IF mheld[m] = "none" THEN "none" ELSE "closed"]
    /\ mret' = NoMRet
    /\ UNCHANGED <<mirrorEnv, stale, mmu, nextSup, sreg, sport, sclosed,
                   mpc, mport, mtls, msup, mafter, listens, handed, overwrites>>
    /\ UNCHANGED coreVars

\* The steps inside a Mirror.Listen call.
ComposerStep(m) ==
    \/ setupLocalTCPListener(m)
    \/ ensureLock(m)
    \/ ensureOnionTest(m) \/ ensureOnionStore(m) \/ ensureOnionFail(m)
    \/ ensureGarlicTest(m) \/ ensureGarlicStore(m) \/ ensureGarlicFail(m)
    \/ addOnionListener(m) \/ createOnionListener(m)
    \/ addGarlicListener(m) \/ createGarlicListener(m)
    \/ setupTLSListener(m)

MirrorNext ==
    \/ \E m \in Composers, port \in Ports, tls \in BOOLEAN : Listen(m, port, tls)
    \/ \E m \in Composers : setupLocalTCPListener(m)
    \/ \E m \in Composers : ensureLock(m)
    \/ \E m \in Composers : ensureOnionTest(m)
    \/ \E m \in Composers : ensureOnionStore(m)
    \/ \E m \in Composers : ensureOnionFail(m)
    \/ \E m \in Composers : ensureGarlicTest(m)
    \/ \E m \in Composers : ensureGarlicStore(m)
    \/ \E m \in Composers : ensureGarlicFail(m)
    \/ \E m \in Composers : addOnionListener(m)
    \/ \E m \in Composers : createOnionListener(m)
    \/ \E m \in Composers : addGarlicListener(m)
    \/ \E m \in Composers : createGarlicListener(m)
    \/ \E m \in Composers : setupTLSListener(m)
    \/ \E s \in Supervisors : CloseComposed(s)
    \/ MirrorCloseEmbedded
    \/ MirrorCloseClear

\* A toggle set, and one unset.
MirrorEnv == {"true", ""}

\* A Mirror with either toggle either way; the embedded supervisor is left alone.
MirrorInit ==
    /\ NewMetaListener(0, {})
    /\ \E vt \in MirrorEnv, vi \in MirrorEnv : NewMirror(vt, vi, MaxListens)

\* A goroutine inside Mirror.Listen goes on when it can; nothing obliges anybody to
\* call Listen or to close what it returned.
MirrorSpec ==
    MirrorInit /\ [][MirrorNext]_vars /\ \A m \in Composers : WF_vars(ComposerStep(m))

\* The same Mirror when the goroutines make one call of Mirror.Listen fewer.
MirrorShortInit ==
    /\ NewMetaListener(0, {})
    /\ \E vt \in MirrorEnv, vi \in MirrorEnv : NewMirror(vt, vi, MaxListens - 1)

MirrorShortSpec ==
    MirrorShortInit /\ [][MirrorNext]_vars
        /\ \A m \in Composers : WF_vars(ComposerStep(m))

\* The supervisors Mirror.Listen calls have returned.
Handed == {s \in Supervisors : handed[s] > 0}

\* C19: every Mirror.Listen builds a new supervisor: the supervisors of the calls
\* under way differ from each other and from the embedded one, a call that
\* succeeds returns the one it built, which no call returned before, and nothing
\* is ever registered in the embedded supervisor.
C19_ListenBuildsFresh ==
    /\ [](sreg[Embedded] = {} /\ handed[Embedded] = 0)
    /\ [](\A s \in Supervisors : handed[s] <= 1)
    /\ [](\A m \in Composers : mpc[m] # "idle" =>
            /\ msup[m] \in Supervisors \ {Embedded}
            /\ \A n \in Composers \ {m} : msup[n] # msup[m])
    /\ [][(mret'.op = "Listen" /\ mret'.res = Ok) =>
            /\ mret'.sup \in Supervisors \ {Embedded}
            /\ handed[mret'.sup] = 0
            /\ \E m \in Composers : msup[m] = mret'.sup /\ mpc[m] = "tls"]_vars

\* Two calls have returned their supervisors, each holding its TCP listener, and
\* the embedded supervisor holds nothing.
C19_Witness ==
    /\ mret.op = "Listen" /\ mret.res = Ok
    /\ Cardinality(Handed) >= 2
    /\ \A s \in Handed : "tcp" \in sreg[s]
    /\ sreg[Embedded] = {}

\* C20 as stated: with Tor and I2P disabled no Mirror.Listen returns an error,
\* whatever the ports of the calls.
C20_Original ==
    (DisableTor /\ DisableI2P /\ mret.op = "Listen" /\ ~mret.tls) => mret.res = Ok

\* C20: every Mirror.Listen under way returns; no manager is ever stored over
\* another, and with Tor and I2P disabled both maps stay empty; with both
\* disabled a call returns an error only when a TCP socket of an open supervisor
\* already listens on its port, or when it asked for a TLS listener.
C20_ConcurrentListen ==
    /\ \A m \in Composers : (mpc[m] # "idle") ~> (mpc[m] = "idle")
    /\ [](overwrites = 0)
    /\ []((DisableTor /\ DisableI2P) =>
            \A p \in Ports : ~Onions[p] /\ ~Garlics[p])
    /\ [][(DisableTor /\ DisableI2P /\ mret'.op = "Listen" /\ mret'.res # Ok) =>
            \/ mret'.res = ErrBind /\ mret'.port \in Bound
            \/ mret'.res = ErrTLS /\ mret'.tls]_vars

\* With Tor and I2P disabled, one call of each goroutine has returned a
\* supervisor, on a port of its own, and all of them are open.
C20_Witness ==
    /\ DisableTor /\ DisableI2P
    /\ mret.op = "Listen" /\ mret.res = Ok
    /\ Cardinality(Handed) = MaxComposers
    /\ Cardinality(Bound) = MaxComposers
    /\ mmu = Unlocked /\ overwrites = 0

\* Mirror.Close returns in this step.
MirrorCloseReturns == kpc = "lock" /\ kpc' = "done"

\* C21: Mirror.Close closes the embedded supervisor before it takes the lock of
\* the maps; the step in which it returns leaves both maps empty and every
\* manager a call had got from them closed; no closed manager is ever in a map,
\* and no Mirror.Listen that began after Mirror.Close returned opens a listener
\* from a closed manager.
C21_MirrorCloseClearsManagers ==
    /\ [](kpc \in {"lock", "done"} => Embedded \in sclosed)
    /\ [][MirrorCloseReturns =>
            /\ \A p \in Ports : ~Onions'[p] /\ ~Garlics'[p]
            /\ \A m \in Composers : mheld[m] # "none" => mheld'[m] = "closed"]_vars
    /\ [](closedManagers = {})
    /\ [](TRUE \notin stale)
    /\ [](\A m \in Composers : (mafter[m] /\ mheld[m] # "none") => mheld[m] = "open")

\* A Mirror.Listen that began after Mirror.Close returned has returned a supervisor
\* with an onion listener, opened from a manager made after the maps were emptied.
C21_Witness ==
    /\ kpc = "done"
    /\ mret.op = "Listen" /\ mret.res = Ok /\ mret.after
    /\ "onion" \in sreg[mret.sup]
    /\ Onions[mret.port]

\* The caller closes the composed supervisor s in this step.
ComposedCloses(s) == s # Embedded /\ s \notin sclosed /\ s \in sclosed'

\* C22: closing a composed supervisor leaves both maps, and every manager, as
\* they were, and frees the port of its TCP listener; a Mirror.Listen that finds
\* a manager of its port in the map goes on without making one, a manager is
\* only ever stored where the map held none, and a call whose port no open
\* supervisor listens on binds it.
C22_ManagersOutliveComposed ==
    /\ [][\A s \in Supervisors : ComposedCloses(s) =>
            /\ UNCHANGED <<Onions, Garlics, closedManagers, mheld>>
            /\ Bound' = Bound \ {sport[s]}]_vars
    /\ [][\A m \in Composers :
            /\ (mpc[m] = "ens_onion" /\ Onions[mport[m]] /\ mpc'[m] # mpc[m])
                  => (mpc'[m] = "ens_garlic" /\ Onions' = Onions)
            /\ (mpc[m] = "ens_garlic" /\ Garlics[mport[m]] /\ mpc'[m] # mpc[m])
                  => (mpc'[m] = "onion" /\ Garlics' = Garlics)]_vars
    /\ [][\A p \in Ports :
            /\ Onions'[p] => (Onions[p] \/ \E m \in Composers :
                                 mpc[m] = "ens_onion_new" /\ mport[m] = p)
            /\ Garlics'[p] => (Garlics[p] \/ \E m \in Composers :
                                 mpc[m] = "ens_garlic_new" /\ mport[m] = p)]_vars
    /\ [](overwrites = 0 /\ closedManagers = {})
    /\ [][\A m \in Composers :
            (mpc[m] = "tcp" /\ mpc'[m] # "tcp" /\ mport[m] \notin Bound) =>
                /\ mpc'[m] = "ensure"
                /\ sport'[msup[m]] = mport[m]
                /\ mport[m] \in Bound']_vars

\* With Tor enabled and Mirror.Close never called, a second Mirror.Listen on the
\* Mirror's port has succeeded after the supervisor of the first was closed: it
\* listens on the port again, with an onion listener of the manager NewMirror made.
C22_Witness ==
    /\ ~DisableTor /\ kpc = "idle"
    /\ mret.op = "Listen" /\ mret.res = Ok /\ mret.port = MirrorPort
    /\ \A p \in Ports : Onions[p] <=> p = MirrorPort
    /\ Cardinality(Handed) = 2
    /\ Cardinality(Handed \cap sclosed) = 1
    /\ mret.sup \notin sclosed
    /\ {"tcp", "onion"} \subseteq sreg[mret.sup]
    /\ sport[mret.sup] = MirrorPort

\* A Mirror under every pair of values of the two environment variables, and
\* one Mirror.Listen.
ToggleInit ==
    /\ NewMetaListener(0, {})
    /\ \E vt \in EnvValues, vi \in EnvValues : NewMirror(vt, vi, 1)

ToggleSpec == ToggleInit /\ [][MirrorNext]_vars

\* The variable is set to 1 or to true in some letter case.
ToggleSet(v) == v \in {"1", "true", "TRUE", "True"}

\* The entries of kind id in the composed supervisors.
Entries(id) == {s \in Supervisors : id \in sreg[s]}

\* C23: while DISABLE_TOR is 1 or true in any letter case the onion map is
\* empty, no call is making an onion manager or holds one, and no supervisor has
\* an onion entry; the same for DISABLE_I2P and garlic.
C23_TogglesSkipManagers ==
    /\ ToggleSet(envTor) =>
          /\ \A p \in Ports : ~Onions[p]
          /\ \A m \in Composers : mpc[m] \notin {"ens_onion_new", "onion_new"}
          /\ Entries("onion") = {}
    /\ ToggleSet(envI2P) =>
          /\ \A p \in Ports : ~Garlics[p]
          /\ \A m \in Composers : mpc[m] \notin {"ens_garlic_new", "garlic_new"}
          /\ Entries("garlic") = {}

\* With DISABLE_TOR=TRUE and DISABLE_I2P unset, a Mirror.Listen has returned a
\* supervisor with a garlic entry and no onion entry.
C23_Witness ==
    /\ envTor = "TRUE" /\ envI2P = ""
    /\ mret.op = "Listen" /\ mret.res = Ok
    /\ {"tcp", "garlic"} \subseteq sreg[mret.sup]
    /\ "onion" \notin sreg[mret.sup]
    /\ \E p \in Ports : Garlics[p]

\* ---- The hidden-TLS policy of Mirror.Listen ----

composeVars == <<envTor, envI2P, mlimit, closedManagers, mheld, stale, Onions,
                 Garlics, mmu, nextSup, sreg, sport, sclosed, mpc, mport, mtls,
                 msup, mafter, kpc, listens, mret, handed, overwrites>>

\* strings.HasSuffix on digit strings.
HasSuffix(str, suf) ==
    /\ Len(str) >= Len(suf)
    /\ SubSeq(str, Len(str) - Len(suf) + 1, Len(str)) = suf

\* parsePortFromName: the port of host:port, "3000" when the name does not parse.
parsePortFromName(name) == IF name.ok THEN name.port ELSE DefaultPort

\* A policy that follows the global whatever the port.
hiddenTlsGlobal(port) == HIDDEN_TLS

\* hiddenTls: false for a port that ends in 22, the global otherwise.
hiddenTls(port) == IF HasSuffix(port, <<2, 2>>) THEN FALSE ELSE HIDDEN_TLS

\* createOnionListener / createGarlicListener: ListenTLS() or Listen().
createListener(useTLS) == IF useTLS THEN "tls" ELSE "plain"

\* Mirror.Listen: port := parsePortFromName(name).
ListenParse ==
    /\ hpc = "idle"
    /\ hport' = parsePortFromName(hname)
    /\ hpc' = "parsed"
    /\ UNCHANGED <<hname, HIDDEN_TLS, huse, hopened, composeVars, coreVars, errorVars>>

\* Mirror.Listen: hiddenTls := hiddenTls(port).
ListenPolicy ==
    /\ hpc = "parsed"
    /\ huse' = hiddenTls(hport)
    /\ hpc' = "policy"
    /\ UNCHANGED <<hname, HIDDEN_TLS, hport, hopened, composeVars, coreVars, errorVars>>

\* Mirror.Listen: addOnionListener(port, newMetaListener, hiddenTls) opens the listener.
ListenOnion ==
    /\ hpc = "policy"
    /\ hopened' = [hopened EXCEPT !["onion"] = createListener(huse)]
    /\ hpc' = "onion"
    /\ UNCHANGED <<hname, HIDDEN_TLS, hport, huse, composeVars, coreVars, errorVars>>

\* Mirror.Listen: addGarlicListener(port, newMetaListener, hiddenTls) opens the listener.
ListenGarlic ==
    /\ hpc = "onion"
    /\ hopened' = [hopened EXCEPT !["garlic"] = createListener(huse)]
    /\ hpc' = "done"
    /\ UNCHANGED <<hname, HIDDEN_TLS, hport, huse, composeVars, coreVars, errorVars>>

HiddenTlsNext == ListenParse \/ ListenPolicy \/ ListenOnion \/ ListenGarlic

\* Every name and either value of the global; Tor and I2P are enabled.
HiddenTlsInit ==
    /\ NewMetaListener(0, {})
    /\ \E name \in Names, h \in BOOLEAN : NewMirrorNamed("", "", 0, name, h)

HiddenTlsSpec == HiddenTlsInit /\ [][HiddenTlsNext]_vars

\* The last two digits of the port are 2 and 2.
EndsIn22(port) ==
    Len(port) >= 2 /\ port[Len(port)] = 2 /\ port[Len(port) - 1] = 2

\* The port string of the name: the part after the colon, 3000 without one.
PortOf(name) == IF name.ok THEN name.port ELSE <<3, 0, 0, 0>>

\* C24: the onion and the garlic listener are opened plain when the port of the
\* name ends in 22, whatever the global is, and otherwise as TLS listeners
\* exactly when the global is true.
C24_HiddenTlsPolicy ==
    \A kd \in Kinds : hopened[kd] # "none" =>
        hopened[kd] = IF EndsIn22(PortOf(hname)) THEN "plain"
                      ELSE IF HIDDEN_TLS THEN "tls" ELSE "plain"

\* With the global true, both listeners of a name with port 322 are open, plain.
C24_Witness ==
    /\ HIDDEN_TLS
    /\ hname = [ok |-> TRUE, port |-> <<3, 2, 2>>]
    /\ hpc = "done"
    /\ \A kd \in Kinds : hopened[kd] = "plain"

\* The Close that performs the shutdown takes the lock and raises the signal.
CloseSignals(c) == cpc[c] = "close_lock" /\ cpc'[c] = "close_walk"

\* C25: the Close that performs the shutdown raises the signal in the step in
\* which it takes the lock, closing no inner listener and leaving the registry
\* as it is; it walks the registry afterwards, with the signal raised and the
\* lock still held; and once the signal is raised a worker in its forward step
\* leaves it.
C25_SignalBeforeWalk ==
    /\ [][\A c \in Callers : CloseSignals(c) =>
            /\ ~closeCh /\ closeCh'
            /\ mu = "free" /\ mu' = c
            /\ walks' = 0
            /\ UNCHANGED <<lclosed, listeners>>]_vars
    /\ [][CloseWalks =>
            /\ closeCh
            /\ \E c \in Callers : cpc[c] = "close_walk" /\ mu = c /\ mu' = "free"]_vars
    /\ [](walks > 0 => closeCh)
    /\ \A l \in Listeners : (closeCh /\ wpc[l] = "forward") ~> (wpc[l] # "forward")

\* The signal is raised and the lock held, no listener is closed yet, and a
\* worker stands in its forward step before a full channel.
C25_Witness ==
    /\ closeCh /\ walks = 0
    /\ \E c \in Callers : cpc[c] = "close_walk" /\ mu = c
    /\ Len(connCh) = ConnChCap
    /\ \E l \in Listeners : wpc[l] = "forward" /\ ~lclosed[l]

\* An Accept leaves the re-check it makes after waking on the shutdown signal.
LeavesRecheck(c) == cpc[c] = "acc_recheck" /\ cpc'[c] # "acc_recheck"

\* C26: whenever the shutdown signal is raised the closed flag is set, and the
\* flag once set stays set; an Accept that woke on the signal therefore finds
\* the flag set at its re-check and returns the closed error, never going back
\* to its select.
C26_SignalImpliesClosed ==
    /\ [](closeCh => isClosed # 0)
    /\ [][isClosed # 0 => isClosed' # 0]_vars
    /\ [](\A c \in Callers : cpc[c] = "acc_recheck" => (closeCh /\ isClosed # 0))
    /\ [][\A c \in Callers : LeavesRecheck(c) =>
            /\ cpc'[c] = "idle"
            /\ ret'.op = "Accept" /\ ret'.res = ErrListenerClosed]_vars

\* An Accept that was waiting when Close began has woken on the signal, while a
\* connection was still in the channel, and has returned the closed error.
C26_Witness ==
    /\ ret.op = "Accept" /\ ret.res = ErrListenerClosed /\ ~ret.after
    /\ closeCh /\ isClosed # 0
    /\ connCh # <<>>

\* The removal loop closes and deletes an entry in this step.
LoopRemovesEntry == LoopRemoves /\ listeners[lrid] # Nil

\* C27: a removal request removes only the listener whose worker published it:
\* the entry the removal loop closes and deletes is that listener's, never one
\* registered under the same id afterwards.
C27_RemovalHitsOwnListener ==
    [][LoopRemovesEntry => listeners[lrid] = lrfrom]_vars

\* The connections the workers have obtained from their listeners' accept.
Obtained == {<<l, n>> : l \in Listeners, n \in 1 .. MaxConns} \cap
            {x \in Listeners \X (1 .. MaxConns) : x[2] <= lnext[x[1]]}

\* Accept has returned connection x to a caller.
ReturnedByAccept(x) ==
    \E k \in 1 .. Len(delivered[x[1]]) : delivered[x[1]][k][2] = x[2]

\* The supervisor's code has closed connection x.
ClosedBySupervisor(x) == x \in closedConns

\* C28: once the Close that performs the shutdown has returned, every connection
\* a worker obtained from accept has been returned by Accept or closed by the
\* supervisor's code: none is left open and undelivered in the fan-in channel.
C28_NoConnectionStranded ==
    (ret.op = "Close" /\ ~ret.after) =>
        \A x \in Obtained : ReturnedByAccept(x) \/ ClosedBySupervisor(x)

\* AddListener has returned nil for listener l.
Added(l) == wid[l] \in Ids

\* The registry holds listener l.
InRegistry(l) == \E i \in Ids : listeners[i] = l

\* C29: when the Close that performs the shutdown returns, the close of every
\* listener whose AddListener returned nil has been invoked, one inserted after
\* the closed flag was set included; and at any time a listener that was added
\* and is no longer in the registry has been closed, so none is left open with
\* no registry entry.
C29_AddedListenersClosed ==
    /\ (ret.op = "Close" /\ ~ret.after) => \A l \in Listeners : Added(l) => lclosed[l]
    /\ \A l \in Listeners : (Added(l) /\ ~InRegistry(l)) => lclosed[l]
    /\ CloseDone => \A l \in late : lclosed[l] /\ ~InRegistry(l)

\* C29 as stated, for every Close call that returns.
C29_Original ==
    ret.op = "Close" => \A l \in Listeners : Added(l) => lclosed[l]

\* The Close that performs the shutdown has returned, and a listener inserted
\* after that Close had set the closed flag has been closed by it.
C29_Witness ==
    /\ ret.op = "Close" /\ ~ret.after
    /\ \E l \in late : lclosed[l] /\ wpc[l] = "done" /\ ~InRegistry(l)

\* Worker l publishes a removal request in this step.
Publishes(l) ==
    /\ Len(senders') = Len(senders) + 1
    /\ senders'[Len(senders')] = l

\* Worker l loads the closed flag in this step and finds it set.
ObservesClosed(l) == wpc[l] = "classify" /\ isClosed # 0 /\ wpc'[l] # "classify"

\* C30: a worker whose accept failed while the closed flag was set leaves without
\* publishing a removal request, and the worker that finds the flag set when it
\* loads it returns in that step; a request is published only by a worker that
\* found the flag unset.
C30_ClosedWorkerPublishesNothing ==
    /\ [](\A l \in afterClosed : wpc[l] \in {"classify", "done"})
    /\ [][\A l \in Listeners : ObservesClosed(l) =>
            (wpc'[l] = "done" /\ removeListenerCh' = removeListenerCh)]_vars
    /\ [][\A l \in Listeners : Publishes(l) =>
            (l \notin afterClosed /\ wpc[l] = "signal" /\ wpc'[l] = "done")]_vars
    /\ [][Len(removeListenerCh') > Len(removeListenerCh) =>
            \E l \in Listeners : Publishes(l)]_vars
    /\ [][\A l \in Listeners : wpc[l] = "done" => wpc'[l] = "done"]_vars

\* The accept of a worker failed after the closed flag was set and before the
\* shutdown signal was raised; the worker has returned, and no removal request
\* has been published.
C30_Witness ==
    \E l \in afterClosed :
        /\ wpc[l] = "done"
        /\ l \notin panics
        /\ removeListenerCh = <<>>
        /\ lrid = NoId
        /\ ~closeCh

\* The accept of worker l returns a timeout or a transient error in this step.
AcceptRetryable(l) == wpc[l] = "accept" /\ wpc'[l] \in {"probe", "backoff"}

\* The sleep of worker l after a transient error ends in this step.
BackoffEnds(l) == wpc[l] = "backoff" /\ wpc'[l] # "backoff"

\* C31: a worker whose accept returns a timeout or a transient error publishes no
\* removal request, leaves the registry as it is and keeps running: after the
\* back-off it is at the shutdown probe again, and from the probe it goes on to
\* accept unless the shutdown signal is raised, however often this repeats.
C31_RetryableErrorKeepsWorker ==
    /\ [][\A l \in Listeners : (AcceptRetryable(l) \/ BackoffEnds(l)) =>
            /\ listeners' = listeners
            /\ removeListenerCh' = removeListenerCh
            /\ listenerWg' = listenerWg
            /\ lclosed' = lclosed]_vars
    /\ [][\A l \in Listeners : BackoffEnds(l) => wpc'[l] = "probe"]_vars
    /\ [][\A l \in Listeners : (wpc[l] = "probe" /\ wpc'[l] # "probe") =>
            IF closeCh THEN wpc'[l] = "done" ELSE wpc'[l] = "accept"]_vars

\* A worker sleeps after a transient error: its entry is in the registry, no
\* removal request is published and the shutdown signal is not raised.
C31_Witness ==
    \E l \in Listeners :
        /\ wpc[l] = "backoff"
        /\ wid[l] \in Ids /\ listeners[wid[l]] = l
        /\ removeListenerCh = <<>> /\ lrid = NoId
        /\ ~closeCh

\* ---- handleAcceptError: the classification of an accept error ----

\* Error messages, as sequences of at most MaxMsgLen words.
MaxMsgLen == 3
Words == {"connection", "reset", "broken", "pipe", "resource", "temporarily",
          "unavailable", "closed"}
Messages == UNION {[1 .. n -> Words] : n \in 0 .. MaxMsgLen}

\* The errors an accept returns: a net.Error has Timeout() and Temporary(), any
\* other error has its message alone.
AcceptErrors ==
    [net : {TRUE}, timeout : BOOLEAN, temporary : BOOLEAN, msg : Messages] \cup
    [net : {FALSE}, timeout : {FALSE}, temporary : {FALSE}, msg : Messages]

\* strings.Contains(str, sub).
Contains(str, sub) ==
    \E k \in 0 .. Len(str) - Len(sub) : SubSeq(str, k + 1, k + Len(sub)) = sub

\* The three patterns of a retryable error.
RetryablePatterns == {<<"connection", "reset">>, <<"broken", "pipe">>,
                      <<"resource", "temporarily", "unavailable">>}

\* err.(net.Error) holds and netErr.Timeout().
IsTimeout(e) == e.net /\ e.timeout

\* The historical test: any error that is a timeout or is marked temporary, or
\* whose message matches a pattern, is retried.
IsRetryableOrTemporary(e) ==
    (e.net /\ e.temporary) \/ \E pat \in RetryablePatterns : Contains(e.msg, pat)

\* The message of the error contains one of the three patterns.
IsRetryable(e) == \E pat \in RetryablePatterns : Contains(e.msg, pat)

\* handleAcceptError is called with the error e of a failed listener.Accept().
HandleAcceptError(e) ==
    /\ apc = "none"
    /\ aerr' = e
    /\ apc' = "timeout?"
    /\ UNCHANGED <<coreVars, mirrorVars>>

\* A timeout: return true at once.
HandleTimeout ==
    /\ apc = "timeout?"
    /\ apc' = IF IsTimeout(aerr) THEN "continue" ELSE "retryable?"
    /\ UNCHANGED <<aerr, coreVars, mirrorVars>>

\* A message with a retryable pattern: sleep 100 ms.
HandleRetryable ==
    /\ apc = "retryable?"
    /\ apc' = IF IsRetryable(aerr) THEN "sleep" ELSE "closed?"
    /\ UNCHANGED <<aerr, coreVars, mirrorVars>>

\* The sleep ends: return true.
HandleSleep ==
    /\ apc = "sleep"
    /\ apc' = "continue"
    /\ UNCHANGED <<aerr, coreVars, mirrorVars>>

\* The load of isClosed: return false when closed, otherwise the error is
\* permanent: signalListenerRemoval(id), return false.
HandleClosed ==
    /\ apc = "closed?"
    /\ apc' = IF isClosed # 0 THEN "stop" ELSE "remove"
    /\ UNCHANGED <<aerr, coreVars, mirrorVars>>

\* One accept error, classified while a Close may set the closed flag.
HandleNext ==
    \/ \E e \in AcceptErrors : HandleAcceptError(e)
    \/ HandleTimeout
    \/ HandleRetryable
    \/ HandleSleep
    \/ HandleClosed
    \/ \E c \in Callers : CloseSwap(c)

HandleSpec == Start(1) /\ [][HandleNext]_vars

\* The words of message m from position i on begin with the words of w.
WordsAt(m, i, w) ==
    /\ i + Len(w) - 1 <= Len(m)
    /\ \A j \in 1 .. Len(w) : m[i + j - 1] = w[j]

\* The message reads "connection reset", "broken pipe" or "resource temporarily
\* unavailable" somewhere.
HasPattern(m) ==
    \E i \in 1 .. Len(m) :
        \/ WordsAt(m, i, <<"connection", "reset">>)
        \/ WordsAt(m, i, <<"broken", "pipe">>)
        \/ WordsAt(m, i, <<"resource", "temporarily", "unavailable">>)

\* The error is marked temporary, is no timeout, and its message has no pattern.
TemporaryOnly(e) == e.net /\ e.temporary /\ ~e.timeout /\ ~HasPattern(e.msg)

\* C32: an accept error the listener marks temporary is retried only when it is a
\* timeout or its message matches a retryable pattern; one that is neither is
\* never slept on and is handled like any other error: the worker stops, and
\* publishes a removal request unless the closed flag is set.
C32_TemporaryNotConsulted ==
    /\ apc \in {"sleep", "continue"} =>
           ((aerr.net /\ aerr.timeout) \/ HasPattern(aerr.msg))
    /\ (apc \in {"stop", "remove"} /\ aerr.net /\ aerr.temporary) => TemporaryOnly(aerr)
    /\ (TemporaryOnly(aerr) /\ apc # "none") =>
           apc \in {"timeout?", "retryable?", "closed?", "stop", "remove"}

\* C32 as stated: an error marked temporary is backed off and retried, and the
\* listener is not removed.
C32_Original ==
    (aerr.net /\ aerr.temporary) => apc \notin {"closed?", "stop", "remove"}

\* An error marked temporary whose message matches no pattern has been classified
\* as permanent: the removal of the listener is requested.
C32_Witness == TemporaryOnly(aerr) /\ apc = "remove" /\ aerr.msg # <<>>

\* Worker l leaves the forward step in this step.
ForwardEnds(l) == wpc[l] = "forward" /\ wpc'[l] # "forward"

\* The connection worker l holds goes into the fan-in channel and stays open.
ForwardSent(l) ==
    /\ connCh' = Append(connCh, [src |-> wid[l], lis |-> l, n |-> lnext[l]])
    /\ closedConns' = closedConns

\* The connection worker l holds is closed and does not go into the channel.
ForwardClosedConn(l) ==
    /\ connCh' = connCh
    /\ <<l, lnext[l]>> \notin closedConns
    /\ closedConns' = closedConns \cup {<<l, lnext[l]>>}

\* C33: the forward step ends in exactly one way: the connection is sent into the
\* fan-in channel, or it is closed because the shutdown signal is raised or the
\* send stayed blocked until the timeout.  The worker is then at the top of its
\* loop with its registry entry and the removal channel untouched; with the signal
\* raised it returns there without accepting again, otherwise it accepts again.
C33_ForwardOneOfThree ==
    /\ [][\A l \in Listeners : ForwardEnds(l) =>
            /\ wpc'[l] = "probe"
            /\ listeners' = listeners /\ removeListenerCh' = removeListenerCh
            /\ listenerWg' = listenerWg /\ lclosed' = lclosed
            /\ \/ ForwardSent(l)
               \/ ForwardClosedConn(l) /\ (closeCh \/ Len(connCh) >= ConnChCap)]_vars
    /\ [][\A l \in Listeners : (wpc[l] = "probe" /\ wpc'[l] # "probe") =>
            /\ lnext' = lnext
            /\ closeCh => wpc'[l] = "done"
            /\ ~closeCh => wpc'[l] = "accept"]_vars

\* A worker whose forward timed out on a full channel has closed the connection
\* and is accepting again, its listener still registered and no removal pending.
C33_Witness ==
    \E l \in Listeners :
        /\ wpc[l] = "accept" /\ ~closeCh
        /\ <<l, lnext[l]>> \in closedConns
        /\ Len(connCh) = ConnChCap
        /\ listeners[wid[l]] = l
        /\ removeListenerCh = <<>>

\* Worker l is in signalListenerRemoval and neither case of its select is ready.
SignalBlocked(l) ==
    wpc[l] = "signal" /\ Len(removeListenerCh) >= RemoveChCap /\ ~closeCh

\* C34: a worker that is to publish its removal request waits only while the
\* removal channel is full and the shutdown signal is not raised; when the
\* removal loop runs, every such worker sooner or later places its id on the
\* channel or falls back to the signal, and returns in that step.
C34_SignalEndsWorker ==
    /\ \A l \in Listeners : (wpc[l] = "signal") ~> (wpc[l] = "done")
    /\ [][\A l \in Listeners : (wpc[l] = "signal" /\ wpc'[l] # "signal") =>
            /\ wpc'[l] = "done" /\ listenerWg' = listenerWg - 1
            /\ ~SignalBlocked(l)
            /\ \/ removeListenerCh' = Append(removeListenerCh, wid[l])
               \/ closeCh /\ removeListenerCh' = removeListenerCh]_vars

\* C34 as stated: a worker in signalListenerRemoval can always take a step.
C34_Original == \A l \in Listeners : ~SignalBlocked(l)

\* The removal channel is full with the request of one worker while the worker of
\* another listener waits to publish its own, the signal not being raised.
C34_Witness ==
    \E l \in Listeners :
        /\ SignalBlocked(l)
        /\ senders # <<>> /\ senders[1] # l
        /\ lpc = "recv"

\* Some AddListener call put a listener into the registry under id i.
WasRegistered(i) == \E l \in Listeners : wid[l] = i

\* The removal loop handles a request whose id the registry does not hold.
LoopRemovesAbsent == lpc = "remove" /\ lpc' # "remove" /\ listeners[lrid] = Nil

\* C35: every id in the removal channel, and the id the removal loop is handling,
\* is the id under which the worker that published it was registered; and the
\* removal loop, handling an id the registry no longer holds, changes neither the
\* registry nor any listener, worker or channel.
C35_RemovalIdsKnown ==
    /\ [](/\ Len(senders) = Len(removeListenerCh)
          /\ \A k \in 1 .. Len(removeListenerCh) :
                /\ removeListenerCh[k] \in Ids
                /\ WasRegistered(removeListenerCh[k])
                /\ wid[senders[k]] = removeListenerCh[k]
          /\ lpc = "remove" => (lrid \in Ids /\ wid[lrfrom] = lrid))
    /\ [][LoopRemovesAbsent =>
            UNCHANGED <<listeners, lclosed, lnext, wpc, wid, listenerWg, connCh,
                        removeListenerCh, closeCh, isClosed>>]_vars

\* The removal loop is about to handle the request of a worker whose listener
\* RemoveListener or Close has already closed and taken out of the registry.
C35_Witness ==
    /\ lpc = "remove"
    /\ listeners[lrid] = Nil
    /\ lclosed[lrfrom] /\ wpc[lrfrom] = "done"
    /\ mu = "free"

\* The worker of listener l has been started and has not returned.
Running(l) == wpc[l] \notin {"none", "done"}

\* The running workers that were started with id i.
WorkersOf(i) == {l \in Listeners : Running(l) /\ wid[l] = i}

\* The ids of the removal requests published and not yet handled.
PendingRemovals ==
    {removeListenerCh[k] : k \in 1 .. Len(removeListenerCh)} \cup
    (IF lpc = "remove" THEN {lrid} ELSE {})

RunningNow == {l \in Listeners : Running(l)}

\* The worker of listener l is started in this step.
Starts(l) == wpc[l] = "none" /\ wpc'[l] # "none"

\* The helper goroutine of the WaitForShutdown of c sees listenerWg.Wait() return.
WaitSeesZero(c) == cpc[c] = "wfs_wait" /\ cpc'[c] = "wfs_done"

\* C37: a worker is started in the step of AddListener that increments the
\* worker-group counter, inside the critical section and as the call returns nil,
\* and a worker that has returned never runs again; so the counter is never zero
\* while a worker runs.  WaitForShutdown sees the counter at zero only when no
\* worker runs and returns nil only after it has seen that, and the Close that
\* performs the shutdown returns only when no worker runs.
C37_CounterCoversWorkers ==
    /\ [](listenerWg >= Cardinality(RunningNow))
    /\ [][\A l \in Listeners : Starts(l) =>
            /\ listenerWg' = listenerWg + 1
            /\ mu # "free" /\ mu' = "free"
            /\ ret'.op = "AddListener" /\ ret'.res = Ok]_vars
    /\ [][\A l \in Listeners : ~Running(l) /\ Running(l)' => Starts(l)]_vars
    /\ [][\A c \in Callers : WaitSeesZero(c) => RunningNow = {}]_vars
    /\ [][(ret'.op = "WaitForShutdown" /\ ret'.res = Ok) =>
            \E c \in Callers : cpc[c] = "wfs_done" /\ cpc'[c] = "idle"]_vars
    /\ []((ret.op = "Close" /\ ~ret.after) => RunningNow = {})

\* C37 as stated, for a Close that finds the supervisor closed already: it begins
\* and returns in one step, so the workers that run when it has returned are
\* workers that ran when it began.
C37_Original == (ret.op = "Close" /\ ret.after) => RunningNow = {}

\* A WaitForShutdown has returned nil with a listener registered whose worker had
\* run and has returned, the supervisor not being closed.
C37_Witness ==
    /\ ret.op = "WaitForShutdown" /\ ret.res = Ok
    /\ RunningNow = {}
    /\ \E l \in Listeners : wpc[l] = "done" /\ l \notin late
    /\ isClosed = 0

\* The positions of a Mirror.Listen call inside ensureHiddenServiceListeners, from
\* the taking of the lock to its release.
EnsureSection == {"ens_onion", "ens_onion_new", "ens_garlic", "ens_garlic_new"}

\* C38: the test that a port has no manager and the storing of a new one are made
\* by a call that holds the lock of the maps exclusively; a manager is stored only
\* for a port that has none, and a stored one leaves its map only when
\* Mirror.Close clears the maps: per port at most one onion and one garlic manager
\* are stored between the construction of the Mirror and its Close.
C38_OneManagerPerPort ==
    /\ [](\A m \in Composers : mpc[m] \in EnsureSection => mmu = m)
    /\ [](overwrites = 0)
    /\ [][\A p \in Ports :
            /\ (~Onions[p] /\ Onions'[p]) =>
                  \E m \in Composers : /\ mmu = m /\ mport[m] = p
                                       /\ mpc[m] = "ens_onion_new"
                                       /\ mpc'[m] = "ens_garlic"
            /\ (~Garlics[p] /\ Garlics'[p]) =>
                  \E m \in Composers : /\ mmu = m /\ mport[m] = p
                                       /\ mpc[m] = "ens_garlic_new"
                                       /\ mpc'[m] = "onion"
            /\ ((Onions[p] /\ ~Onions'[p]) \/ (Garlics[p] /\ ~Garlics'[p])) =>
                  (kpc = "lock" /\ kpc' = "done" /\ mmu = Unlocked)]_vars

\* One call has stored the onion manager of a port that had none and still holds
\* the lock, while another call waits for the lock; the Mirror is open.
C38_Witness ==
    \E m \in Composers, n \in Composers :
        /\ m # n
        /\ mpc[m] = "ens_garlic" /\ mmu = m
        /\ mport[m] # MirrorPort /\ Onions[mport[m]] /\ ~Garlics[mport[m]]
        /\ mpc[n] = "ensure"
        /\ kpc = "idle"

\* Mirror.Listen call m, begun before Mirror.Close returned, stores a manager in a
\* map that Close has emptied.
StoresAfterClose(m) ==
    /\ ~mafter[m] /\ kpc = "done"
    /\ mpc[m] \in {"ens_onion_new", "ens_garlic_new"}
    /\ (Onions' # Onions \/ Garlics' # Garlics)

\* C39: a Mirror.Listen call that runs concurrently with Mirror.Close opens no
\* listener from a manager Close has closed, and stores no manager in the maps
\* once Close has emptied them.
C39_ListenRacingClose ==
    /\ [](FALSE \notin stale)
    /\ [][\A m \in Composers : ~StoresAfterClose(m)]_vars

\* The Mirror.Listen that returned in the last step failed after it had bound
\* its loopback TCP listener.
FailedAfterBind == mret.op = "Listen" /\ mret.res \notin {Ok, ErrBind}

\* C40: when Mirror.Listen returns an error after it bound its loopback TCP
\* listener, the port of the call is bound no longer, and the supervisor that
\* held it has no listener registered that is still open.
C40_FailedListenLeavesNothing ==
    FailedAfterBind =>
        /\ mret.port \notin Bound
        /\ \A s \in Supervisors \ sclosed : sport[s] = mret.port => sreg[s] = {}

====
